---- MODULE Spec2Model ----
(***************************************************************************)
(* A model of the AXI DMA driver: the character device's buffer            *)
(* allocations (axidma_chrdev.c), the DMA transfer engine interface        *)
(* (axidma_dma.c) and the dmaengine channels it drives.                    *)
(***************************************************************************)
EXTENDS Integers, Sequences, FiniteSets, TLC

(***************************************************************************)
(* Bounds of the model.                                                    *)
(***************************************************************************)
\* Width of a machine word (void *, size_t) in bits; arithmetic is mod 2^w.
AddrBits == 4
\* Descriptors the engine accepts, over all channels, in one run of the model.
MaxSubmitted == 2
\* Passes of a cyclic transfer over its frame buffers that are counted.
MaxPasses == 1
\* Live allocations (mmap'ed regions) at a time.
MaxAllocs == 1
\* Frame buffers in one video transaction.
MaxFrames == 1

(***************************************************************************)
(* Linux error numbers returned (negated) by the driver.                   *)
(***************************************************************************)
ENOMEM == 12
EACCES == 13
EFAULT == 14
EBUSY  == 16
ENODEV == 19
EINVAL == 22
ENOTTY == 25
ETIME  == 62

\* The timeout of a blocking transfer, in milliseconds.
AXIDMA_DMA_TIMEOUT == 10000

\* The null pointer, and the null DMA address the resolver returns on failure.
NULL == 0

\* The enumerations of axidma_ioctl.h.
AXIDMA_WRITE == "AXIDMA_WRITE"
AXIDMA_READ  == "AXIDMA_READ"
AXIDMA_DMA   == "AXIDMA_DMA"
AXIDMA_VDMA  == "AXIDMA_VDMA"

\* 2^n
RECURSIVE Pow2(_)
Pow2(n) == IF n = 0 THEN 1 ELSE 2 * Pow2(n - 1)

\* Machine words, and unsigned word arithmetic.
WordSize == Pow2(AddrBits)
Words == 0 .. (WordSize - 1)
WAdd(a, b) == (a + b) % WordSize
WSub(a, b) == (a - b + WordSize) % WordSize
WMul(a, b) == (a * b) % WordSize

VARIABLES
    channels,      \* dev->channels: the channel array, index = channel id
    dmabuf_list,   \* dev->dmabuf_list: the allocations, newest first
    coherent,      \* the DMA memory held (dma_alloc_coherent'ed, not yet freed)
    kmalloced,     \* the allocation records held (kmalloc'ed, not yet kfree'd)
    pending,       \* per channel: descriptors submitted, not yet issued
    active,        \* per channel: descriptors issued to the hardware
    completed,     \* per channel: the engine's last completed cookie
    next_cookie,   \* per channel: the engine's last used cookie
    passes,        \* per channel: passes of the running cyclic transfer
    cb_data,       \* dev->cb_data: the callback data, one per channel
    pc,            \* the calling thread: "idle", "wait" (in
                   \* wait_for_completion_timeout), "returned" (a command has
                   \* handed back its status) or "exit" (module removed)
    cur,           \* the transfer the calling thread waits for
    last,          \* the command that has just returned, and what it returned
    calls,         \* the dmaengine calls of the running or just returned command
    res,           \* the last address resolution asked for, and its answer
    notify_signal, \* dev->notify_signal: the signal configured for the device
    sent,          \* the signals the step just taken has sent
    probe,         \* the initialisation of the engine (probing, or from the
                   \* device tree): the device it filled in, how far it got,
                   \* and the last channel query's reply
    files,         \* the open files of the device (file->private_data set)
    chrdev,        \* axidma_chrdev_init: the step it is at, its status, whether
                   \* the character device is added and the list head set up
    prog           \* the file-transfer program: the step do_transfer is at,
                   \* and the transactions and buffers it holds

vars == << channels, dmabuf_list, coherent, kmalloced, pending, active, completed,
           next_cookie, passes, cb_data, pc, cur, last, calls, res, probe,
           notify_signal, sent, files, chrdev, prog >>

engine_vars == << pending, active, completed, next_cookie, passes, cb_data >>
caller_vars == << pc, cur, last, calls >>
alloc_vars  == << dmabuf_list, coherent, kmalloced >>

(***************************************************************************)
(* The channel registry, as parsed from the device tree at probe time.     *)
(***************************************************************************)
ProbedChannels ==
    << [dir |-> AXIDMA_WRITE, type |-> AXIDMA_DMA],
       [dir |-> AXIDMA_READ,  type |-> AXIDMA_DMA],
       [dir |-> AXIDMA_WRITE, type |-> AXIDMA_VDMA] >>

num_chans == Len(channels)
ChanIds == 0 .. (num_chans - 1)
\* dev->channels[id]
Channel(id) == channels[id + 1]

(***************************************************************************)
(* Address resolution and allocations (axidma_chrdev.c).                   *)
(***************************************************************************)

\* The first allocation of the list that the test of the loop accepts, or 0.
RECURSIVE FirstMatch(_, _, _, _)
FirstMatch(list, i, user_addr, size) ==
    IF i > Len(list) THEN NULL
    ELSE LET dma_alloc == list[i]
             user_start == dma_alloc.user_addr
             user_end == WAdd(user_start, dma_alloc.size)
             user_end_addr == WAdd(user_addr, size)
         IN  IF user_start <= user_addr /\ user_end_addr <= user_end
             THEN dma_alloc.dma_addr + WSub(user_addr, user_start)
             ELSE FirstMatch(list, i + 1, user_addr, size)

axidma_uservirt_to_dma(list, user_addr, size) ==
    FirstMatch(list, 1, user_addr, size)

\* The DMA memory regions, as sets of bus addresses.
Range(base, size) == { a \in base .. (base + size - 1) : TRUE }
Overlap(b1, s1, b2, s2) == Range(b1, s1) \cap Range(b2, s2) # {}

\* Where the kernel may place a new mapping, and its sizes.
VmStarts == {4, 10}
VmSizes  == {2, 4}
\* Where the contiguous memory allocator may place a buffer.
BusBases == {16, 24}

\* The processes that have the device open (axidma_open admits every root
\* process that passes O_EXCL), each with an address space of its own.
Mms == {1, 2}
\* The allocations live at a time where only allocations come and go.
MaxMappings == 2

\* The placements used where transfers run too, by the one client.
MainMms      == {1}
MainVmStarts == {4}
MainVmSizes  == {4}
MainBusBases == {16}

\* What can fail inside mmap.
MmapFaults == {"none", "kmalloc", "dma_alloc_coherent", "dma_mmap_coherent"}

(***************************************************************************)
(* The dmaengine, as the driver sees it.  A descriptor that was submitted  *)
(* waits in `pending` until the channel's pending work is issued; the      *)
(* hardware then works through `active` in order.                          *)
(***************************************************************************)

\* The state that the calls of one command read and write, threaded through
\* the functions the command calls.
Here == [pending |-> pending, active |-> active, next_cookie |-> next_cookie,
         passes |-> passes, cb_data |-> cb_data, calls |-> << >>]

\* The same, continuing the log of the command that is waiting.
Resumed == [Here EXCEPT !.calls = calls]

\* Record one call into the dmaengine.
Call(m, op, c) == [m EXCEPT !.calls = Append(@, [op |-> op, chan |-> c])]

\* A plausible bug: terminate drops only the oldest descriptor of the channel.
dma_terminate_all_OldestOnly(m, c) ==
    Call([m EXCEPT !.active[c] = IF @ = << >> THEN @ ELSE Tail(@),
                   !.pending[c] = IF m.active[c] = << >> /\ @ # << >>
                                  THEN Tail(@) ELSE @],
         "terminate_all", c)

\* Terminate everything in flight or queued on the channel.
dma_terminate_all(m, c) ==
    Call([m EXCEPT !.pending[c] = << >>, !.active[c] = << >>,
                   !.passes[c] = 0],
         "terminate_all", c)

\* What the engine answers to the three calls of axidma_prep_transfer:
\* it accepts them all, or rejects the configuration, the preparation or
\* the submission.
EngineOk == [stage |-> "ok", rc |-> 0]
EngineOutcomes ==
    { EngineOk,
      [stage |-> "slave_config", rc |-> -EINVAL],
      [stage |-> "prep_slave_sg", rc |-> -EBUSY],
      [stage |-> "submit", rc |-> -EBUSY] }

(***************************************************************************)
(* DMA operations helper functions (axidma_dma.c).                         *)
(***************************************************************************)

\* No channel (the NULL that axidma_get_chan returns).
NoChan == -1

\* A plausible bug: the length of the entry is never set.
axidma_init_sg_entry_NoLen(buf, buf_len) ==
    LET dma_addr == axidma_uservirt_to_dma(dmabuf_list, buf, buf_len)
    IN  IF dma_addr = NULL
        THEN [rc |-> -EFAULT, sg |-> << >>]
        ELSE [rc |-> 0, sg |-> << [addr |-> dma_addr, len |-> 0] >>]

\* The scatter-gather entry of a buffer, or -EFAULT.
axidma_init_sg_entry(buf, buf_len) ==
    LET dma_addr == axidma_uservirt_to_dma(dmabuf_list, buf, buf_len)
    IN  IF dma_addr = NULL
        THEN [rc |-> -EFAULT, sg |-> << >>]
        ELSE [rc |-> 0, sg |-> << [addr |-> dma_addr, len |-> buf_len] >>]

\* A plausible bug: the channel is found by its id alone.
axidma_get_chan_IdOnly(chan_id, chan_type, chan_dir) ==
    IF chan_id < 0 \/ chan_id >= num_chans THEN NoChan ELSE chan_id

axidma_get_chan(chan_id, chan_type, chan_dir) ==
    IF chan_id < 0 \/ chan_id >= num_chans
    THEN NoChan
    ELSE IF Channel(chan_id).type # chan_type \/ Channel(chan_id).dir # chan_dir
         THEN NoChan
         ELSE chan_id

\* No notification signal has been configured for the device.
NoSignal == -1
\* The calling process (get_current()).
get_current == 1

\* The real-time signals.
SIGRTMIN == 32
SIGRTMAX == 64
\* A signal may be used for notification when it is a real-time one.
VALID_NOTIFY_SIGNAL(signal) == SIGRTMIN <= signal /\ signal <= SIGRTMAX

\* A plausible bug: the setting is stored before it is verified.
axidma_set_signal_StoreFirst(signal) ==
    IF ~VALID_NOTIFY_SIGNAL(signal)
    THEN [rc |-> -EINVAL, notify_signal |-> signal]
    ELSE [rc |-> 0, notify_signal |-> signal]

\* axidma_set_signal: the signal is stored if it is a real-time one.
axidma_set_signal(signal) ==
    IF ~VALID_NOTIFY_SIGNAL(signal)
    THEN [rc |-> -EINVAL, notify_signal |-> notify_signal]
    ELSE [rc |-> 0, notify_signal |-> signal]

\* The engine configuration of a DMA transfer: an interrupt for every
\* transfer completed.
axidma_setup_dma_config(direction) ==
    [direction |-> direction, coalesc |-> 1, delay |-> 0, reset |-> 0]

\* A plausible bug: the VDMA is set up to interrupt on completions, as the
\* DMA is.
axidma_setup_vdma_config_Interrupts(width, height, depth) ==
    [frm_cnt_en |-> 0, park |-> 0, coalesc |-> 1, delay |-> 0, reset |-> 0]

\* The engine configuration of a VDMA transfer: all frames are processed
\* continuously (no parking), with no transfer completion interrupts.
axidma_setup_vdma_config(width, height, depth) ==
    [frm_cnt_en |-> 0, park |-> 0, coalesc |-> 0, delay |-> 0, reset |-> 0]

\* The callback data of a transfer, as axidma_prep_transfer fills it in.
CallbackData(dma_tfr) ==
    [channel_id |-> dma_tfr.channel_id, comp |-> dma_tfr.wait,
     notify_signal |-> IF dma_tfr.wait THEN NoSignal
                       ELSE dma_tfr.notify_signal,
     process |-> IF dma_tfr.wait THEN NULL ELSE dma_tfr.process]

\* Configure the channel, prepare the descriptor, set its callback, submit.
\* Any rejection terminates the channel.
axidma_prep_transfer(m, c, dma_tfr, eng) ==
    LET m1 == Call(m, "slave_config", c)
        m2 == Call(m1, "prep_slave_sg", c)
        m3 == Call([m2 EXCEPT !.cb_data[dma_tfr.channel_id] =
                                    CallbackData(dma_tfr)],
                   "submit", c)
        dma_cookie == m.next_cookie[c] + 1
        config == IF dma_tfr.type = AXIDMA_DMA
                  THEN axidma_setup_dma_config(dma_tfr.dir)
                  ELSE axidma_setup_vdma_config(dma_tfr.width, dma_tfr.height,
                                                dma_tfr.depth)
        \* `tfr` is the transfer the descriptor was prepared for, and the
        \* operation that set it up; the engine keeps no such thing, its
        \* callback gets the channel's callback data.
        desc == [cookie |-> dma_cookie, sg |-> dma_tfr.sg_list,
                 cyclic |-> (dma_tfr.type = AXIDMA_VDMA),
                 coalesc |-> config.coalesc,
                 tfr |-> [wait |-> dma_tfr.wait,
                          notify_signal |-> dma_tfr.notify_signal,
                          process |-> dma_tfr.process,
                          cmd |-> dma_tfr.cmd]]
        m4 == [m3 EXCEPT !.next_cookie[c] = dma_cookie,
                         !.pending[c] = Append(@, desc)]
    IN  IF eng.stage = "slave_config"
        THEN [rc |-> eng.rc, cookie |-> 0, m |-> dma_terminate_all(m1, c)]
        ELSE IF eng.stage = "prep_slave_sg"
        THEN [rc |-> -EBUSY, cookie |-> 0, m |-> dma_terminate_all(m2, c)]
        ELSE IF eng.stage = "submit"
        THEN [rc |-> -EBUSY, cookie |-> 0, m |-> dma_terminate_all(m3, c)]
        ELSE [rc |-> 0, cookie |-> dma_cookie, m |-> m4]

\* The first half of axidma_start_transfer: issue the channel's pending work.
\* The wait that follows, for a blocking transfer, is WaitTimeout/WaitWake.
axidma_start_transfer(m, c, dma_tfr) ==
    Call([m EXCEPT !.active[c] = @ \o m.pending[c], !.pending[c] = << >>],
         "issue_pending", c)

\* What a command hands back: it returned rc, or it now waits on channel c.
Returned(m, rc, err) ==
    [m |-> m, rc |-> rc, err |-> err, wait |-> FALSE, chan |-> NoChan,
     cookie |-> 0]
Started(m, c, dma_tfr, cookie) ==
    [m |-> m, rc |-> 0, err |-> "none", wait |-> dma_tfr.wait, chan |-> c,
     cookie |-> cookie]

(***************************************************************************)
(* DMA operations, the public interface (axidma_dma.c).                    *)
(***************************************************************************)

axidma_read_transfer(trans, eng) ==
    LET sg == axidma_init_sg_entry(trans.buf, trans.buf_len)
        rx_tfr == [sg_list |-> sg.sg, sg_len |-> 1, dir |-> AXIDMA_READ,
                   type |-> AXIDMA_DMA, wait |-> trans.wait,
                   channel_id |-> trans.channel_id,
                   notify_signal |-> notify_signal, process |-> get_current,
                   cmd |-> "read"]
        rx_chan == axidma_get_chan(trans.channel_id, AXIDMA_DMA, AXIDMA_READ)
        prep == axidma_prep_transfer(Here, rx_chan, rx_tfr, eng)
    IN  IF sg.rc < 0 THEN Returned(Here, sg.rc, "AddressingFault")
        ELSE IF rx_chan = NoChan
        THEN Returned(Here, -ENODEV, "NoSuchChannel")
        ELSE IF prep.rc < 0 THEN Returned(prep.m, prep.rc, "EngineBusy")
        ELSE Started(axidma_start_transfer(prep.m, rx_chan, rx_tfr),
                     rx_chan, rx_tfr, prep.cookie)

axidma_write_transfer(trans, eng) ==
    LET sg == axidma_init_sg_entry(trans.buf, trans.buf_len)
        tx_tfr == [sg_list |-> sg.sg, sg_len |-> 1, dir |-> AXIDMA_WRITE,
                   type |-> AXIDMA_DMA, wait |-> trans.wait,
                   channel_id |-> trans.channel_id,
                   notify_signal |-> notify_signal, process |-> get_current,
                   cmd |-> "write"]
        tx_chan == axidma_get_chan(trans.channel_id, AXIDMA_DMA, AXIDMA_WRITE)
        prep == axidma_prep_transfer(Here, tx_chan, tx_tfr, eng)
    IN  IF sg.rc < 0 THEN Returned(Here, sg.rc, "AddressingFault")
        ELSE IF tx_chan = NoChan
        THEN Returned(Here, -ENODEV, "NoSuchChannel")
        ELSE IF prep.rc < 0 THEN Returned(prep.m, prep.rc, "EngineBusy")
        ELSE Started(axidma_start_transfer(prep.m, tx_chan, tx_tfr),
                     tx_chan, tx_tfr, prep.cookie)

\* A plausible bug: the receive side is prepared and started first.
axidma_rw_transfer_RxFirst(trans, eng_tx, eng_rx) ==
    LET tx_sg == axidma_init_sg_entry(trans.tx_buf, trans.tx_buf_len)
        rx_sg == axidma_init_sg_entry(trans.rx_buf, trans.rx_buf_len)
        tx_tfr == [sg_list |-> tx_sg.sg, sg_len |-> 1, dir |-> AXIDMA_WRITE,
                   type |-> AXIDMA_DMA, wait |-> FALSE,
                   channel_id |-> trans.tx_channel_id,
                   notify_signal |-> notify_signal, process |-> get_current,
                   cmd |-> "readwrite"]
        rx_tfr == [sg_list |-> rx_sg.sg, sg_len |-> 1, dir |-> AXIDMA_READ,
                   type |-> AXIDMA_DMA, wait |-> trans.wait,
                   channel_id |-> trans.rx_channel_id,
                   notify_signal |-> notify_signal, process |-> get_current,
                   cmd |-> "readwrite"]
        tx_chan == axidma_get_chan(trans.tx_channel_id, AXIDMA_DMA,
                                   AXIDMA_WRITE)
        rx_chan == axidma_get_chan(trans.rx_channel_id, AXIDMA_DMA,
                                   AXIDMA_READ)
        rx_prep == axidma_prep_transfer(Here, rx_chan, rx_tfr, eng_rx)
        tx_prep == axidma_prep_transfer(rx_prep.m, tx_chan, tx_tfr, eng_tx)
        rx_issued == axidma_start_transfer(tx_prep.m, rx_chan, rx_tfr)
    IN  IF tx_sg.rc < 0 THEN Returned(Here, tx_sg.rc, "AddressingFault")
        ELSE IF rx_sg.rc < 0 THEN Returned(Here, rx_sg.rc, "AddressingFault")
        ELSE IF tx_chan = NoChan \/ rx_chan = NoChan
        THEN Returned(Here, -ENODEV, "NoSuchChannel")
        ELSE IF rx_prep.rc < 0
        THEN Returned(rx_prep.m, rx_prep.rc, "EngineBusy")
        ELSE IF tx_prep.rc < 0
        THEN Returned(tx_prep.m, tx_prep.rc, "EngineBusy")
        ELSE Started(axidma_start_transfer(rx_issued, tx_chan, tx_tfr),
                     rx_chan, rx_tfr, rx_prep.cookie)

\* A plausible bug: the transmit transfer takes the caller's mode too.
axidma_rw_transfer_TxWaits(trans, eng_tx, eng_rx) ==
    LET tx_sg == axidma_init_sg_entry(trans.tx_buf, trans.tx_buf_len)
        rx_sg == axidma_init_sg_entry(trans.rx_buf, trans.rx_buf_len)
        tx_tfr == [sg_list |-> tx_sg.sg, sg_len |-> 1, dir |-> AXIDMA_WRITE,
                   type |-> AXIDMA_DMA, wait |-> trans.wait,
                   channel_id |-> trans.tx_channel_id,
                   notify_signal |-> notify_signal, process |-> get_current,
                   cmd |-> "readwrite"]
        rx_tfr == [sg_list |-> rx_sg.sg, sg_len |-> 1, dir |-> AXIDMA_READ,
                   type |-> AXIDMA_DMA, wait |-> trans.wait,
                   channel_id |-> trans.rx_channel_id,
                   notify_signal |-> notify_signal, process |-> get_current,
                   cmd |-> "readwrite"]
        tx_chan == axidma_get_chan(trans.tx_channel_id, AXIDMA_DMA,
                                   AXIDMA_WRITE)
        rx_chan == axidma_get_chan(trans.rx_channel_id, AXIDMA_DMA,
                                   AXIDMA_READ)
        tx_prep == axidma_prep_transfer(Here, tx_chan, tx_tfr, eng_tx)
        rx_prep == axidma_prep_transfer(tx_prep.m, rx_chan, rx_tfr, eng_rx)
        tx_started == axidma_start_transfer(rx_prep.m, tx_chan, tx_tfr)
    IN  IF tx_sg.rc < 0 THEN Returned(Here, tx_sg.rc, "AddressingFault")
        ELSE IF rx_sg.rc < 0 THEN Returned(Here, rx_sg.rc, "AddressingFault")
        ELSE IF tx_chan = NoChan
        THEN Returned(Here, -ENODEV, "NoSuchChannel")
        ELSE IF rx_chan = NoChan
        THEN Returned(Here, -ENODEV, "NoSuchChannel")
        ELSE IF tx_prep.rc < 0
        THEN Returned(tx_prep.m, tx_prep.rc, "EngineBusy")
        ELSE IF rx_prep.rc < 0
        THEN Returned(rx_prep.m, rx_prep.rc, "EngineBusy")
        ELSE Started(axidma_start_transfer(tx_started, rx_chan, rx_tfr),
                     rx_chan, rx_tfr, rx_prep.cookie)

\* A plausible bug: the transmit side is started as soon as it is prepared.
axidma_rw_transfer_TxStartedEarly(trans, eng_tx, eng_rx) ==
    LET tx_sg == axidma_init_sg_entry(trans.tx_buf, trans.tx_buf_len)
        rx_sg == axidma_init_sg_entry(trans.rx_buf, trans.rx_buf_len)
        tx_tfr == [sg_list |-> tx_sg.sg, sg_len |-> 1, dir |-> AXIDMA_WRITE,
                   type |-> AXIDMA_DMA, wait |-> FALSE,
                   channel_id |-> trans.tx_channel_id,
                   notify_signal |-> notify_signal, process |-> get_current,
                   cmd |-> "readwrite"]
        rx_tfr == [sg_list |-> rx_sg.sg, sg_len |-> 1, dir |-> AXIDMA_READ,
                   type |-> AXIDMA_DMA, wait |-> trans.wait,
                   channel_id |-> trans.rx_channel_id,
                   notify_signal |-> notify_signal, process |-> get_current,
                   cmd |-> "readwrite"]
        tx_chan == axidma_get_chan(trans.tx_channel_id, AXIDMA_DMA,
                                   AXIDMA_WRITE)
        rx_chan == axidma_get_chan(trans.rx_channel_id, AXIDMA_DMA,
                                   AXIDMA_READ)
        tx_prep == axidma_prep_transfer(Here, tx_chan, tx_tfr, eng_tx)
        tx_started == axidma_start_transfer(tx_prep.m, tx_chan, tx_tfr)
        rx_prep == axidma_prep_transfer(tx_started, rx_chan, rx_tfr, eng_rx)
    IN  IF tx_sg.rc < 0 THEN Returned(Here, tx_sg.rc, "AddressingFault")
        ELSE IF rx_sg.rc < 0 THEN Returned(Here, rx_sg.rc, "AddressingFault")
        ELSE IF tx_chan = NoChan
        THEN Returned(Here, -ENODEV, "NoSuchChannel")
        ELSE IF rx_chan = NoChan
        THEN Returned(Here, -ENODEV, "NoSuchChannel")
        ELSE IF tx_prep.rc < 0
        THEN Returned(tx_prep.m, tx_prep.rc, "EngineBusy")
        ELSE IF rx_prep.rc < 0
        THEN Returned(rx_prep.m, rx_prep.rc, "EngineBusy")
        ELSE Started(axidma_start_transfer(rx_prep.m, rx_chan, rx_tfr),
                     rx_chan, rx_tfr, rx_prep.cookie)

\* Transmit is prepared, then receive; transmit is started, then receive,
\* and only the receive transfer is waited for.
axidma_rw_transfer(trans, eng_tx, eng_rx) ==
    LET tx_sg == axidma_init_sg_entry(trans.tx_buf, trans.tx_buf_len)
        rx_sg == axidma_init_sg_entry(trans.rx_buf, trans.rx_buf_len)
        tx_tfr == [sg_list |-> tx_sg.sg, sg_len |-> 1, dir |-> AXIDMA_WRITE,
                   type |-> AXIDMA_DMA, wait |-> FALSE,
                   channel_id |-> trans.tx_channel_id,
                   notify_signal |-> notify_signal, process |-> get_current,
                   cmd |-> "readwrite"]
        rx_tfr == [sg_list |-> rx_sg.sg, sg_len |-> 1, dir |-> AXIDMA_READ,
                   type |-> AXIDMA_DMA, wait |-> trans.wait,
                   channel_id |-> trans.rx_channel_id,
                   notify_signal |-> notify_signal, process |-> get_current,
                   cmd |-> "readwrite"]
        tx_chan == axidma_get_chan(trans.tx_channel_id, AXIDMA_DMA,
                                   AXIDMA_WRITE)
        rx_chan == axidma_get_chan(trans.rx_channel_id, AXIDMA_DMA,
                                   AXIDMA_READ)
        tx_prep == axidma_prep_transfer(Here, tx_chan, tx_tfr, eng_tx)
        rx_prep == axidma_prep_transfer(tx_prep.m, rx_chan, rx_tfr, eng_rx)
        tx_started == axidma_start_transfer(rx_prep.m, tx_chan, tx_tfr)
    IN  IF tx_sg.rc < 0 THEN Returned(Here, tx_sg.rc, "AddressingFault")
        ELSE IF rx_sg.rc < 0 THEN Returned(Here, rx_sg.rc, "AddressingFault")
        ELSE IF tx_chan = NoChan
        THEN Returned(Here, -ENODEV, "NoSuchChannel")
        ELSE IF rx_chan = NoChan
        THEN Returned(Here, -ENODEV, "NoSuchChannel")
        ELSE IF tx_prep.rc < 0
        THEN Returned(tx_prep.m, tx_prep.rc, "EngineBusy")
        ELSE IF rx_prep.rc < 0
        THEN Returned(rx_prep.m, rx_prep.rc, "EngineBusy")
        ELSE Started(axidma_start_transfer(tx_started, rx_chan, rx_tfr),
                     rx_chan, rx_tfr, rx_prep.cookie)

\* The scatter-gather entries of the frame buffers, each of image_size bytes.
FrameEntries(frame_buffers, image_size) ==
    [i \in 1 .. Len(frame_buffers) |->
        axidma_init_sg_entry(frame_buffers[i], image_size)]

\* A plausible bug: the transfer structure is set up to wait, as in a
\* blocking write.
axidma_video_write_transfer_Waits(trans, kmalloc_ok, eng) ==
    LET image_size == WMul(WMul(trans.width, trans.height), trans.depth)
        entries == FrameEntries(trans.frame_buffers, image_size)
        tx_tfr == [sg_list |-> [i \in 1 .. Len(entries) |-> entries[i].sg[1]],
                   sg_len |-> trans.num_frame_buffers, dir |-> AXIDMA_WRITE,
                   type |-> AXIDMA_VDMA, wait |-> TRUE,
                   channel_id |-> trans.channel_id,
                   notify_signal |-> notify_signal, process |-> get_current,
                   cmd |-> "video_write",
                   width |-> trans.width, height |-> trans.height,
                   depth |-> trans.depth]
        tx_chan == axidma_get_chan(trans.channel_id, AXIDMA_DMA, AXIDMA_WRITE)
        prep == axidma_prep_transfer(Here, tx_chan, tx_tfr, eng)
    IN  IF ~kmalloc_ok THEN Returned(Here, 0, "AllocationExhausted")
        ELSE IF \E i \in 1 .. Len(entries) : entries[i].rc < 0
        THEN Returned(Here, 0, "AddressingFault")
        ELSE IF tx_chan = NoChan THEN Returned(Here, 0, "NoSuchChannel")
        ELSE IF prep.rc < 0 THEN Returned(prep.m, 0, "EngineBusy")
        ELSE Started(axidma_start_transfer(prep.m, tx_chan, tx_tfr),
                     tx_chan, tx_tfr, prep.cookie)

\* Every exit of the function is `return 0`; rc is what it had found.
axidma_video_write_transfer(trans, kmalloc_ok, eng) ==
    LET image_size == WMul(WMul(trans.width, trans.height), trans.depth)
        entries == FrameEntries(trans.frame_buffers, image_size)
        tx_tfr == [sg_list |-> [i \in 1 .. Len(entries) |-> entries[i].sg[1]],
                   sg_len |-> trans.num_frame_buffers, dir |-> AXIDMA_WRITE,
                   type |-> AXIDMA_VDMA, wait |-> FALSE,
                   channel_id |-> trans.channel_id,
                   notify_signal |-> notify_signal, process |-> get_current,
                   cmd |-> "video_write",
                   width |-> trans.width, height |-> trans.height,
                   depth |-> trans.depth]
        tx_chan == axidma_get_chan(trans.channel_id, AXIDMA_DMA, AXIDMA_WRITE)
        prep == axidma_prep_transfer(Here, tx_chan, tx_tfr, eng)
    IN  IF ~kmalloc_ok THEN Returned(Here, 0, "AllocationExhausted")
        ELSE IF \E i \in 1 .. Len(entries) : entries[i].rc < 0
        THEN Returned(Here, 0, "AddressingFault")
        ELSE IF tx_chan = NoChan THEN Returned(Here, 0, "NoSuchChannel")
        ELSE IF prep.rc < 0 THEN Returned(prep.m, 0, "EngineBusy")
        ELSE Started(axidma_start_transfer(prep.m, tx_chan, tx_tfr),
                     tx_chan, tx_tfr, prep.cookie)

\* The status of the engine's terminate-all.
TerminateStatus == 0

axidma_stop_channel(chan_info) ==
    LET chan == axidma_get_chan(chan_info.channel_id, chan_info.type,
                                chan_info.dir)
    IN  IF chan = NoChan THEN Returned(Here, -ENODEV, "NoSuchChannel")
        ELSE [Returned(dma_terminate_all(Here, chan), TerminateStatus, "none")
                EXCEPT !.chan = chan]

\* The library's axidma_stop_transfer: the stop request it sends always has
\* the type AXIDMA_DMA.
axidma_stop_transfer(channel, dir) ==
    axidma_stop_channel([channel_id |-> channel, type |-> AXIDMA_DMA,
                         dir |-> dir])

(***************************************************************************)
(* The requests a client may make.                                         *)
(***************************************************************************)

\* Channel ids a request may name: the registered ones and one on each side.
ChanArgs == -1 .. num_chans
\* The (address, length) pairs a transfer request may name.
TransferBufs == { <<4, 4>>, <<5, 4>> }
\* The frame buffer addresses and image geometries of a video request.
FrameBufs == {4, 10}
Geometries == { <<2, 2, 1>> }

RECURSIVE SeqsUpTo(_, _)
SeqsUpTo(S, n) ==
    IF n = 0 THEN { << >> }
    ELSE LET shorter == SeqsUpTo(S, n - 1)
         IN  shorter \cup { Append(q, x) : q \in shorter, x \in S }

Transactions ==
    { [wait |-> w, channel_id |-> id, buf |-> b[1], buf_len |-> b[2]] :
        w \in BOOLEAN, id \in ChanArgs, b \in TransferBufs }

InoutTransactions ==
    { [wait |-> w, tx_channel_id |-> tx, tx_buf |-> tb[1],
       tx_buf_len |-> tb[2], rx_channel_id |-> rx, rx_buf |-> rb[1],
       rx_buf_len |-> rb[2]] :
        w \in BOOLEAN, tx \in 0 .. num_chans, rx \in 0 .. num_chans,
        tb \in TransferBufs, rb \in TransferBufs }

VideoTransactions ==
    { [channel_id |-> id, num_frame_buffers |-> Len(f), frame_buffers |-> f,
       width |-> g[1], height |-> g[2], depth |-> g[3]] :
        id \in ChanArgs, f \in SeqsUpTo(FrameBufs, MaxFrames) \ { << >> },
        g \in Geometries }

ChanInfos ==
    { [channel_id |-> id, type |-> t, dir |-> d] :
        id \in ChanArgs, t \in {AXIDMA_DMA, AXIDMA_VDMA},
        d \in {AXIDMA_WRITE, AXIDMA_READ} }

(***************************************************************************)
(* The probing initialisation (the axidma_dma.c that finds its channels by *)
(* asking the dmaengine for every id): a pass that counts the channels, an *)
(* allocation of the array, and a pass that stores them.                   *)
(***************************************************************************)

\* The ids probed are 0 .. MaxProbeId - 1 (AXIDMA_MAX_ID is 100).
MaxProbeId == 1

\* The channels the dmaengine can grant.
HwChannels ==
    { [channel_id |-> id, type |-> t, dir |-> d] :
        id \in 0 .. (MaxProbeId - 1), t \in {AXIDMA_DMA, AXIDMA_VDMA},
        d \in {AXIDMA_WRITE, AXIDMA_READ} }

\* struct axidma_device, before axidma_dma_init.  `channels` holds the
\* entries stored inside the array, `capacity` the entries the array was
\* allocated for, `overrun` the entries stored past its end.
NoDev ==
    [kmalloced |-> FALSE, capacity |-> 0, channels |-> << >>,
     overrun |-> << >>, num_chans |-> 0,
     num_dma_tx_chans |-> 0, num_dma_rx_chans |-> 0,
     num_vdma_tx_chans |-> 0, num_vdma_rx_chans |-> 0]

\* axidma_probe_chan: ask the dmaengine for the channel; on the counting pass
\* (no array yet) release it and count it, otherwise store it at index
\* num_chans and count it.  `granted` is what dma_request_channel grants on
\* this pass.  A store at an index past the array lands outside it.
axidma_probe_chan(dev, channel_id, channel_dir, channel_type, granted, num_type_chans) ==
    LET entry == [channel_id |-> channel_id, type |-> channel_type,
                  dir |-> channel_dir]
    IN  IF entry \notin granted THEN dev
        ELSE IF ~dev.kmalloced
        THEN [dev EXCEPT !.num_chans = @ + 1, ![num_type_chans] = @ + 1]
        ELSE IF dev.num_chans < dev.capacity
        THEN [dev EXCEPT !.channels = Append(@, entry), !.num_chans = @ + 1,
                         ![num_type_chans] = @ + 1]
        ELSE [dev EXCEPT !.overrun = Append(@, entry), !.num_chans = @ + 1,
                         ![num_type_chans] = @ + 1]

\* One loop of axidma_probe_channels: ids channel_id .. MaxProbeId - 1 of one
\* kind, the transmit channel of an id before its receive channel.
RECURSIVE ProbeLoop(_, _, _, _, _, _)
ProbeLoop(dev, channel_id, channel_type, granted, tx, rx) ==
    IF channel_id >= MaxProbeId THEN dev
    ELSE ProbeLoop(
             axidma_probe_chan(
                 axidma_probe_chan(dev, channel_id, AXIDMA_WRITE,
                                   channel_type, granted, tx),
                 channel_id, AXIDMA_READ, channel_type, granted, rx),
             channel_id + 1, channel_type, granted, tx, rx)

\* axidma_probe_channels: reset the counts, probe the DMA channels, then the
\* VDMA channels.
axidma_probe_channels(dev, granted) ==
    LET reset == [dev EXCEPT !.num_chans = 0, !.num_dma_tx_chans = 0,
                             !.num_dma_rx_chans = 0, !.num_vdma_tx_chans = 0,
                             !.num_vdma_rx_chans = 0]
        dma   == ProbeLoop(reset, 0, AXIDMA_DMA, granted,
                           "num_dma_tx_chans", "num_dma_rx_chans")
    IN  ProbeLoop(dma, 0, AXIDMA_VDMA, granted,
                  "num_vdma_tx_chans", "num_vdma_rx_chans")

\* axidma_dma_init of the probing driver: count, allocate, store.  granted1
\* and granted2 are what the dmaengine grants on the two passes.
axidma_dma_init(granted1, kmalloc_ok, granted2) ==
    LET counted == axidma_probe_channels(NoDev, granted1)
    IN  IF counted.num_chans = 0 THEN [rc |-> 0, dev |-> counted]
        ELSE IF ~kmalloc_ok THEN [rc |-> -ENOMEM, dev |-> counted]
        ELSE [rc |-> 0,
              dev |-> axidma_probe_channels(
                          [counted EXCEPT !.kmalloced = TRUE,
                                          !.capacity = counted.num_chans],
                          granted2)]

\* axidma_get_num_channels
axidma_get_num_channels(dev) ==
    [num_channels         |-> dev.num_chans,
     num_dma_tx_channels  |-> dev.num_dma_tx_chans,
     num_dma_rx_channels  |-> dev.num_dma_rx_chans,
     num_vdma_tx_channels |-> dev.num_vdma_tx_chans,
     num_vdma_rx_channels |-> dev.num_vdma_rx_chans]

\* What AXIDMA_GET_DMA_CHANNELS can copy out: num_channels entries starting
\* at dev->channels.  The entries inside the array are the ones stored; the
\* memory past its end belongs to other objects, so an entry read from there
\* is the one stored or anything written over it since.
ChannelArrayReads(dev) ==
    { dev.channels \o over :
        over \in { o \in [1 .. Len(dev.overrun) -> HwChannels] : TRUE } }

NoReply  == [kind |-> "none"]
NoProbe  == [state |-> "uninit", rc |-> 0, dev |-> NoDev, reply |-> NoReply]

(***************************************************************************)
(* The state machine.  The client is one thread: it is in user space       *)
(* ("idle"), inside wait_for_completion_timeout ("wait"), or a command has *)
(* just handed it a status ("returned").  `last` and `calls` describe the  *)
(* command that is running or has just returned, and are dropped when the  *)
(* client goes on.                                                         *)
(***************************************************************************)

\* axidma_chrdev_init has returned 0: the device is in service.
ChrdevInService ==
    [step |-> "returned", rc |-> 0, added |-> TRUE, list_init |-> TRUE]
\* The file-transfer program is not running.
NoProg == [step |-> "none"]

NoReq  == [none |-> TRUE]
NoCur  == [cmd |-> "none", req |-> NoReq, chan |-> NoChan, cookie |-> 0,
           done |-> FALSE]
NoLast == [cmd |-> "none", req |-> NoReq, rc |-> 0, err |-> "none",
           chan |-> NoChan]
NoRes  == [user_addr |-> 0, size |-> 0, dma_addr |-> NULL, asked |-> FALSE]

Init ==
    /\ channels = ProbedChannels
    /\ probe = NoProbe
    /\ files = {}
    /\ chrdev = ChrdevInService
    /\ prog = NoProg
    /\ notify_signal = NoSignal
    /\ sent = << >>
    /\ dmabuf_list = << >>
    /\ coherent = {}
    /\ kmalloced = {}
    /\ pending = [c \in 0 .. (Len(ProbedChannels) - 1) |-> << >>]
    /\ active = [c \in 0 .. (Len(ProbedChannels) - 1) |-> << >>]
    /\ completed = [c \in 0 .. (Len(ProbedChannels) - 1) |-> 0]
    /\ next_cookie = [c \in 0 .. (Len(ProbedChannels) - 1) |-> 0]
    /\ passes = [c \in 0 .. (Len(ProbedChannels) - 1) |-> 0]
    /\ cb_data = [c \in 0 .. (Len(ProbedChannels) - 1) |->
                    [channel_id |-> c, comp |-> FALSE, notify_signal |-> NoSignal,
                     process |-> NULL]]
    /\ pc = "idle"
    /\ cur = NoCur
    /\ last = NoLast
    /\ calls = << >>
    /\ res = NoRes

\* The engine's answers matter only to a command that reaches the engine.
OutcomesFor(dry) == IF dry.m.calls = << >> THEN {EngineOk} ELSE EngineOutcomes

\* The descriptors the engine has accepted so far.
RECURSIVE SumTo(_, _)
SumTo(f, n) == IF n < 0 THEN 0 ELSE f[n] + SumTo(f, n - 1)
Submitted(cookies) == SumTo(cookies, num_chans - 1)

\* The command `cmd` with request `req` ran to r: it returned, or the caller
\* now waits in wait_for_completion_timeout.
Finish(cmd, req, r) ==
    /\ Submitted(r.m.next_cookie) <= MaxSubmitted
    /\ pending' = r.m.pending
    /\ active' = r.m.active
    /\ next_cookie' = r.m.next_cookie
    /\ passes' = r.m.passes
    /\ cb_data' = r.m.cb_data
    /\ calls' = r.m.calls
    /\ IF r.wait
       THEN /\ pc' = "wait"
            /\ cur' = [cmd |-> cmd, req |-> req, chan |-> r.chan,
                       cookie |-> r.cookie, done |-> FALSE]
            /\ last' = NoLast
       ELSE /\ pc' = "returned"
            /\ cur' = NoCur
            /\ last' = [cmd |-> cmd, req |-> req, rc |-> r.rc,
                        err |-> r.err, chan |-> r.chan]
    /\ sent' = << >>
    /\ UNCHANGED << channels, chrdev, prog, files, probe, notify_signal, completed, alloc_vars, res >>

Read ==
    /\ pc = "idle"
    /\ \E trans \in Transactions :
         \E eng \in OutcomesFor(axidma_read_transfer(trans, EngineOk)) :
            Finish("read", trans, axidma_read_transfer(trans, eng))

Write ==
    /\ pc = "idle"
    /\ \E trans \in Transactions :
         \E eng \in OutcomesFor(axidma_write_transfer(trans, EngineOk)) :
            Finish("write", trans, axidma_write_transfer(trans, eng))

ReadWrite ==
    /\ pc = "idle"
    /\ \E trans \in InoutTransactions :
         \E eng_tx, eng_rx \in
               OutcomesFor(axidma_rw_transfer(trans, EngineOk, EngineOk)) :
            Finish("readwrite", trans,
                   axidma_rw_transfer(trans, eng_tx, eng_rx))

VideoWrite ==
    /\ pc = "idle"
    /\ \E trans \in VideoTransactions, kmalloc_ok \in BOOLEAN :
         \E eng \in OutcomesFor(
                      axidma_video_write_transfer(trans, kmalloc_ok, EngineOk)) :
            Finish("video_write", trans,
                   axidma_video_write_transfer(trans, kmalloc_ok, eng))

StopChannel ==
    /\ pc = "idle"
    /\ \E chan_info \in ChanInfos :
         Finish("stop", chan_info, axidma_stop_channel(chan_info))

\* A plausible bug: the timeout is reported, and the channel is left as is.
axidma_start_transfer_timeout_NoTerminate(m, c) ==
    [Returned(m, -ETIME, "TransferTimedOut") EXCEPT !.chan = c]

\* A plausible bug: the timeout terminates the channels from c down, not
\* only the one waited on.
RECURSIVE axidma_start_transfer_timeout_Downwards(_, _)
axidma_start_transfer_timeout_Downwards(m, c) ==
    IF c <= 0
    THEN [Returned(dma_terminate_all(m, c), -ETIME, "TransferTimedOut")
            EXCEPT !.chan = c]
    ELSE [axidma_start_transfer_timeout_Downwards(dma_terminate_all(m, c),
                                                  c - 1)
            EXCEPT !.chan = c]

\* The second half of axidma_start_transfer, when the wait ran out
\* (time_remain == 0): -ETIME, and the channel is terminated.
axidma_start_transfer_timeout(m, c) ==
    [Returned(dma_terminate_all(m, c), -ETIME, "TransferTimedOut")
        EXCEPT !.chan = c]

\* A plausible bug: the caller waits with wait_for_completion, which has no
\* bound, so the wait never runs out.
WaitTimeout_Unbounded ==
    /\ pc = "wait"
    /\ ~cur.done
    /\ FALSE
    /\ UNCHANGED vars

WaitTimeout ==
    /\ pc = "wait"
    /\ ~cur.done
    /\ Finish(cur.cmd, cur.req, axidma_start_transfer_timeout(Resumed, cur.chan))

\* dma_async_is_tx_complete: the cookie is complete once the engine's last
\* completed cookie has reached it.
DmaSuccess(c, cookie) == cookie <= completed[c]

\* A plausible bug: the woken caller does not ask the engine for the status
\* of its cookie.
axidma_start_transfer_woken_NoStatus(m, c, cookie) ==
    [Returned(m, 0, "none") EXCEPT !.chan = c]

\* The second half of axidma_start_transfer, when the completion woke the
\* caller: success if the engine reports the cookie complete, else -EBUSY
\* and the channel is terminated.
axidma_start_transfer_woken(m, c, cookie) ==
    IF DmaSuccess(c, cookie)
    THEN [Returned(m, 0, "none") EXCEPT !.chan = c]
    ELSE [Returned(dma_terminate_all(m, c), -EBUSY, "EngineBusy")
            EXCEPT !.chan = c]

WaitWake ==
    /\ pc = "wait"
    /\ cur.done
    /\ Finish(cur.cmd, cur.req,
              axidma_start_transfer_woken(Resumed, cur.chan, cur.cookie))

\* The client takes the status and goes on.
ReturnToUser ==
    /\ pc = "returned"
    /\ pc' = "idle"
    /\ last' = NoLast
    /\ calls' = << >>
    /\ res' = NoRes
    /\ sent' = << >>
    /\ UNCHANGED << channels, chrdev, prog, files, probe, notify_signal, alloc_vars, engine_vars, cur >>

\* axidma_dma_callback on the callback data of channel c, called for the
\* descriptor desc: if the data holds a completion, complete it.  The data
\* is the channel's, so the completion is that of the transfer which last
\* prepared on the channel.  TRUE when that wakes the calling thread.
axidma_dma_callback(c, desc) ==
    cb_data[c].comp /\ pc = "wait" /\ cur.chan = c

\* The other branch of axidma_dma_callback: the data holds no completion
\* and its signal is a valid one, so the signal is sent to the process of
\* the data, with the channel id of the data.
SignalsOf(data) ==
    IF ~data.comp /\ VALID_NOTIFY_SIGNAL(data.notify_signal)
    THEN << [si_signo |-> data.notify_signal, si_int |-> data.channel_id,
             process |-> data.process] >>
    ELSE << >>

\* The hardware finishes the oldest descriptor of channel c and the engine
\* calls its callback, whose parameter is the channel's callback data.
Complete ==
    \E c \in ChanIds :
        /\ pc # "exit"
        /\ active[c] # << >>
        /\ ~Head(active[c]).cyclic
        /\ active' = [active EXCEPT ![c] = Tail(@)]
        /\ completed' = [completed EXCEPT ![c] = Head(active[c]).cookie]
        /\ cur' = IF Head(active[c]).coalesc > 0 /\
                     axidma_dma_callback(c, Head(active[c]))
                  THEN [cur EXCEPT !.done = TRUE] ELSE cur
        /\ sent' = IF Head(active[c]).coalesc > 0 THEN SignalsOf(cb_data[c])
                   ELSE << >>
        /\ UNCHANGED << channels, chrdev, prog, files, probe, notify_signal, alloc_vars, pending, next_cookie, passes,
                        cb_data, pc, last, calls, res >>

\* The hardware finishes one pass over the frame buffers of a cyclic
\* transfer and starts over; a completion is reported, and the callback
\* called, only if the channel was configured to interrupt on completions.
CyclicPass ==
    \E c \in ChanIds :
        /\ pc # "exit"
        /\ active[c] # << >>
        /\ Head(active[c]).cyclic
        /\ passes[c] < MaxPasses
        /\ passes' = [passes EXCEPT ![c] = @ + 1]
        /\ cur' = IF Head(active[c]).coalesc > 0 /\
                     axidma_dma_callback(c, Head(active[c]))
                  THEN [cur EXCEPT !.done = TRUE] ELSE cur
        /\ sent' = IF Head(active[c]).coalesc > 0 THEN SignalsOf(cb_data[c])
                   ELSE << >>
        /\ UNCHANGED << channels, chrdev, prog, files, probe, notify_signal, alloc_vars, pending,
                        active, completed, next_cookie, cb_data, pc, last,
                        calls, res >>

(***************************************************************************)
(* Mapping and unmapping DMA buffers (axidma_chrdev.c).                    *)
(***************************************************************************)

\* The list without its i-th entry (list_del).
Without(list, i) ==
    SubSeq(list, 1, i - 1) \o SubSeq(list, i + 1, Len(list))

\* A plausible bug: a failed dma_mmap_coherent leaves without
\* dma_free_coherent (goto free_vma_data).
axidma_mmap_KeepsRegion(mm, vm_start, size, dma_addr, fault) ==
    LET dma_alloc == [user_addr |-> vm_start, size |-> size,
                      dma_addr |-> dma_addr, mm |-> mm]
        region == [dma_addr |-> dma_addr, size |-> size]
    IN  IF fault = "kmalloc"
        THEN [rc |-> -ENOMEM, list |-> dmabuf_list, held |-> coherent,
              records |-> kmalloced]
        ELSE IF fault = "dma_alloc_coherent"
        THEN [rc |-> -ENOMEM, list |-> dmabuf_list, held |-> coherent,
              records |-> (kmalloced \cup {dma_alloc}) \ {dma_alloc}]
        ELSE IF fault = "dma_mmap_coherent"
        THEN [rc |-> -EINVAL, list |-> dmabuf_list,
              held |-> coherent \cup {region},
              records |-> (kmalloced \cup {dma_alloc}) \ {dma_alloc}]
        ELSE [rc |-> 0, list |-> << dma_alloc >> \o dmabuf_list,
              held |-> coherent \cup {region},
              records |-> kmalloced \cup {dma_alloc}]

\* mmap of [vm_start, vm_start + size) of address space mm (the vma's; the
\* record does not keep it, the field is there for the kernel's placement
\* of later mappings): the record is allocated, the DMA
\* memory at dma_addr is allocated and mapped, and the record is put at the
\* head of the list; a failure of any step undoes the steps before it.
axidma_mmap(mm, vm_start, size, dma_addr, fault) ==
    LET dma_alloc == [user_addr |-> vm_start, size |-> size,
                      dma_addr |-> dma_addr, mm |-> mm]
        region == [dma_addr |-> dma_addr, size |-> size]
    IN  IF fault = "kmalloc"
        THEN [rc |-> -ENOMEM, list |-> dmabuf_list, held |-> coherent,
              records |-> kmalloced]
        ELSE IF fault = "dma_alloc_coherent"
        THEN [rc |-> -ENOMEM, list |-> dmabuf_list, held |-> coherent,
              records |-> (kmalloced \cup {dma_alloc}) \ {dma_alloc}]
        ELSE IF fault = "dma_mmap_coherent"
        THEN [rc |-> -EINVAL, list |-> dmabuf_list,
              held |-> (coherent \cup {region}) \ {region},
              records |-> (kmalloced \cup {dma_alloc}) \ {dma_alloc}]
        ELSE [rc |-> 0, list |-> << dma_alloc >> \o dmabuf_list,
              held |-> coherent \cup {region},
              records |-> kmalloced \cup {dma_alloc}]

\* The mapping of the i-th allocation is closed: its DMA memory is freed and
\* its record is unlinked and freed.
axidma_vma_close(i) ==
    LET dma_alloc == dmabuf_list[i]
    IN  [list |-> Without(dmabuf_list, i),
         held |-> coherent \ {[dma_addr |-> dma_alloc.dma_addr,
                               size |-> dma_alloc.size]},
         records |-> kmalloced \ {dma_alloc}]

\* The kernel places a new mapping clear of the other mappings of the same
\* address space, and the allocator places a buffer clear of the buffers it
\* has handed out.
MmapOver(mms, starts, sizes, bases, max) ==
    /\ pc = "idle"
    /\ Len(dmabuf_list) < max
    /\ \E mm \in mms, vm_start \in starts, size \in sizes, dma_addr \in bases,
          fault \in MmapFaults :
         /\ \A i \in 1 .. Len(dmabuf_list) :
               dmabuf_list[i].mm = mm =>
                   ~Overlap(vm_start, size, dmabuf_list[i].user_addr,
                            dmabuf_list[i].size)
         /\ \A r \in coherent : ~Overlap(dma_addr, size, r.dma_addr, r.size)
         /\ LET r == axidma_mmap(mm, vm_start, size, dma_addr, fault)
            IN  /\ dmabuf_list' = r.list
                /\ coherent' = r.held
                /\ kmalloced' = r.records
                /\ last' = [cmd |-> "mmap",
                            req |-> [mm |-> mm, vm_start |-> vm_start,
                                     size |-> size],
                            rc |-> r.rc,
                            err |-> IF r.rc < 0 THEN "AllocationExhausted"
                                    ELSE "none",
                            chan |-> NoChan]
         /\ calls' = << >>
         /\ pc' = "returned"
         /\ sent' = << >>
         /\ UNCHANGED << channels, chrdev, prog, files, probe, notify_signal, engine_vars, cur, res >>

Mmap == MmapOver(MainMms, MainVmStarts, MainVmSizes, MainBusBases, MaxAllocs)

Munmap ==
    /\ pc = "idle"
    /\ \E i \in 1 .. Len(dmabuf_list) :
         LET r == axidma_vma_close(i)
         IN  /\ dmabuf_list' = r.list
             /\ coherent' = r.held
             /\ kmalloced' = r.records
             /\ last' = [cmd |-> "munmap",
                         req |-> [mm |-> dmabuf_list[i].mm,
                                  vm_start |-> dmabuf_list[i].user_addr,
                                  size |-> dmabuf_list[i].size,
                                  dma_addr |-> dmabuf_list[i].dma_addr],
                         rc |-> 0, err |-> "none", chan |-> NoChan]
    /\ calls' = << >>
    /\ pc' = "returned"
    /\ sent' = << >>
    /\ UNCHANGED << channels, chrdev, prog, files, probe, notify_signal, engine_vars, cur, res >>

(***************************************************************************)
(* Teardown (axidma_dma_exit): every channel is terminated and released.   *)
(***************************************************************************)
\* A plausible bug: the channels are released without being terminated.
RECURSIVE TerminateFrom_ReleaseOnly(_, _)
TerminateFrom_ReleaseOnly(m, i) ==
    IF i >= num_chans THEN m
    ELSE TerminateFrom_ReleaseOnly(Call(m, "release_channel", i), i + 1)

RECURSIVE TerminateFrom(_, _)
TerminateFrom(m, i) ==
    IF i >= num_chans THEN m
    ELSE TerminateFrom(Call(dma_terminate_all(m, i), "release_channel", i),
                       i + 1)

axidma_dma_exit == TerminateFrom(Here, 0)

\* The module is removed; it cannot be while the device is open or mapped.
DmaExit ==
    /\ pc = "idle"
    /\ dmabuf_list = << >>
    /\ LET m == axidma_dma_exit
       IN  /\ pending' = m.pending
           /\ active' = m.active
           /\ passes' = m.passes
           /\ calls' = m.calls
    /\ pc' = "exit"
    /\ last' = [cmd |-> "exit", req |-> NoReq, rc |-> 0, err |-> "none",
                chan |-> NoChan]
    /\ sent' = << >>
    /\ UNCHANGED << channels, chrdev, prog, files, probe, notify_signal, alloc_vars, completed, next_cookie, cb_data,
                    cur, res >>

Next ==
    \/ Read
    \/ Write
    \/ ReadWrite
    \/ VideoWrite
    \/ StopChannel
    \/ WaitTimeout
    \/ WaitWake
    \/ ReturnToUser
    \/ Complete
    \/ CyclicPass
    \/ Mmap
    \/ Munmap
    \/ DmaExit

Spec == Init /\ [][Next]_vars

(***************************************************************************)
(* The address resolver on its own: allocations come and go, and every     *)
(* (address, size) of the word range is asked for.                         *)
(***************************************************************************)
MmapAny == MmapOver(Mms, VmStarts, VmSizes, BusBases, MaxMappings)

Resolve ==
    /\ pc = "idle"
    /\ pc' = "returned"
    /\ \E user_addr \in Words, size \in Words :
         res' = [user_addr |-> user_addr, size |-> size,
                 dma_addr |-> axidma_uservirt_to_dma(dmabuf_list, user_addr,
                                                     size),
                 asked |-> TRUE]
    /\ sent' = << >>
    /\ UNCHANGED << channels, chrdev, prog, files, probe, notify_signal, alloc_vars, engine_vars, cur, last, calls >>

NextResolver ==
    \/ MmapAny
    \/ Munmap
    \/ ReturnToUser
    \/ Resolve

SpecResolver == Init /\ [][NextResolver]_vars

(***************************************************************************)
(* Completion notification by signal: the client configures the signal of  *)
(* the device and runs transfers.                                          *)
(***************************************************************************)

\* The signals a client may ask for: the real-time ones at both ends of
\* their range, and the ones next to them.
SignalArgs == {SIGRTMIN - 1, SIGRTMIN, SIGRTMAX, SIGRTMAX + 1}

\* AXIDMA_SET_DMA_SIGNAL
SetNotifySignal ==
    /\ pc = "idle"
    /\ \E signal \in SignalArgs :
         LET r == axidma_set_signal(signal)
         IN  /\ notify_signal' = r.notify_signal
             /\ last' = [cmd |-> "set_signal", req |-> [signal |-> signal],
                         rc |-> r.rc,
                         err |-> IF r.rc < 0 THEN "InvalidArgument" ELSE "none",
                         chan |-> NoChan]
    /\ calls' = << >>
    /\ pc' = "returned"
    /\ sent' = << >>
    /\ UNCHANGED << channels, chrdev, prog, files, probe, alloc_vars, engine_vars, cur, res >>

NextNotify ==
    \/ SetNotifySignal
    \/ Mmap
    \/ Read
    \/ VideoWrite
    \/ WaitTimeout
    \/ WaitWake
    \/ ReturnToUser
    \/ Complete
    \/ CyclicPass

SpecNotify == Init /\ [][NextNotify]_vars

(***************************************************************************)
(* The probing initialisation and the channel queries of the client.       *)
(***************************************************************************)
probe_frame == << channels, alloc_vars, engine_vars, caller_vars, res,
                 notify_signal, sent, files, chrdev, prog >>

\* Module initialisation of the probing driver.
DmaInit ==
    /\ probe.state = "uninit"
    /\ \E granted1 \in SUBSET HwChannels, granted2 \in SUBSET HwChannels,
          kmalloc_ok \in BOOLEAN :
          LET r == axidma_dma_init(granted1, kmalloc_ok, granted2)
          IN  probe' = [probe EXCEPT
                            !.state = IF r.rc = 0 THEN "init" ELSE "failed",
                            !.rc = r.rc, !.dev = r.dev]
    /\ UNCHANGED probe_frame

\* AXIDMA_GET_NUM_DMA_CHANNELS
GetNumChannels ==
    /\ probe.state = "init"
    /\ probe' = [probe EXCEPT !.reply =
                     [kind |-> "num", num |-> axidma_get_num_channels(probe.dev)]]
    /\ UNCHANGED probe_frame

\* AXIDMA_GET_DMA_CHANNELS: copy num_channels entries of dev->channels out.
GetChannels ==
    /\ probe.state = "init"
    /\ \E read \in ChannelArrayReads(probe.dev) :
          probe' = [probe EXCEPT !.reply =
                       [kind |-> "chans",
                        num |-> axidma_get_num_channels(probe.dev),
                        channels |-> read]]
    /\ UNCHANGED probe_frame

NextProbe == DmaInit \/ GetNumChannels \/ GetChannels

SpecProbe == Init /\ [][NextProbe]_vars

(***************************************************************************)
(* Properties.                                                             *)
(***************************************************************************)

\* The command that is running (its caller waits) or has just returned.
TheCmd == IF pc = "wait" THEN cur.cmd ELSE last.cmd
TheReq == IF pc = "wait" THEN cur.req ELSE last.req

\* The transfer and stop commands.
TransferCmds == {"read", "write", "readwrite", "video_write"}
Commands == TransferCmds \cup {"stop"}

\* The descriptors in flight or queued on channel c.
Descriptors(c) ==
    { active[c][i] : i \in 1 .. Len(active[c]) } \cup
    { pending[c][i] : i \in 1 .. Len(pending[c]) }

\* Positions of the log at which `op` was called on a channel of direction dir.
CallsOf(op, dir) ==
    { i \in 1 .. Len(calls) :
        calls[i].op = op /\ Channel(calls[i].chan).dir = dir }

\* Some registered channel has this id, kind and direction.
Registered(id, type, dir) ==
    \E c \in ChanIds :
        c = id /\ Channel(c).type = type /\ Channel(c).dir = dir

\* C1: in every ReadWrite transaction, each submit and each issue on the
\* receive channel comes after the same call on the transmit channel; the
\* receive side is never submitted or issued first.
C1_TransmitBeforeReceive ==
    TheCmd = "readwrite" =>
        \A op \in {"submit", "issue_pending"} :
            \A i \in CallsOf(op, AXIDMA_READ) :
                \E j \in CallsOf(op, AXIDMA_WRITE) : j < i

\* A ReadWrite that submitted and issued both sides has returned.
C1_Witness ==
    /\ pc = "returned"
    /\ last.cmd = "readwrite"
    /\ last.rc = 0
    /\ CallsOf("submit", AXIDMA_READ) # {}
    /\ CallsOf("issue_pending", AXIDMA_READ) # {}

\* C2: when the wait of a blocking transfer runs out, the command returns
\* -ETIME, nothing is left in flight or queued on the channel it waited on,
\* and a StopChannel then issued on that channel returns success.
C2_TimeoutTerminates ==
    [][ (pc = "wait" /\ ~cur.done /\ pc' = "returned") =>
            /\ last'.rc = -ETIME
            /\ last'.chan = cur.chan
            /\ pending'[cur.chan] = << >>
            /\ active'[cur.chan] = << >>
            /\ (axidma_stop_channel(
                   [channel_id |-> last.chan, type |-> Channel(last.chan).type,
                    dir |-> Channel(last.chan).dir]).rc = 0)' ]_vars

\* A blocking transfer has timed out.
C2_Witness ==
    /\ pc = "returned"
    /\ last.cmd \in TransferCmds
    /\ last.rc = -ETIME
    /\ last.chan \in ChanIds

\* C3: the caller that waits for its blocking transfer is woken only by the
\* completion of the descriptor its own call submitted.
C3_WokenByOwnDescriptorOnly ==
    [][ (pc = "wait" /\ ~cur.done /\ cur'.done) =>
            /\ active[cur.chan] # << >>
            /\ Head(active[cur.chan]).cookie = cur.cookie ]_vars

\* A request names a buffer that does not resolve, or a channel that is not
\* there.
BadBuffer(cmd, req) ==
    IF cmd \in {"read", "write"}
    THEN axidma_uservirt_to_dma(dmabuf_list, req.buf, req.buf_len) = NULL
    ELSE IF cmd = "readwrite"
    THEN \/ axidma_uservirt_to_dma(dmabuf_list, req.tx_buf,
                                   req.tx_buf_len) = NULL
         \/ axidma_uservirt_to_dma(dmabuf_list, req.rx_buf,
                                   req.rx_buf_len) = NULL
    ELSE \E i \in 1 .. Len(req.frame_buffers) :
            axidma_uservirt_to_dma(
                dmabuf_list, req.frame_buffers[i],
                WMul(WMul(req.width, req.height), req.depth)) = NULL

BadChannel(cmd, req) ==
    IF cmd = "read"
    THEN ~Registered(req.channel_id, AXIDMA_DMA, AXIDMA_READ)
    ELSE IF cmd = "write"
    THEN ~Registered(req.channel_id, AXIDMA_DMA, AXIDMA_WRITE)
    ELSE IF cmd = "readwrite"
    THEN \/ ~Registered(req.tx_channel_id, AXIDMA_DMA, AXIDMA_WRITE)
         \/ ~Registered(req.rx_channel_id, AXIDMA_DMA, AXIDMA_READ)
    ELSE req.channel_id \notin ChanIds

\* C4: a Read, Write, ReadWrite or StreamWrite that names an unresolvable
\* buffer or a channel that is not there returns an error, and has made no
\* call into the engine.
C4_BadRequestFailsWithoutEngineCall ==
    (/\ pc = "returned"
     /\ last.cmd \in TransferCmds
     /\ BadBuffer(last.cmd, last.req) \/ BadChannel(last.cmd, last.req))
    => (last.rc < 0 /\ calls = << >>)

\* The allocation that contains [user_addr, user_addr + size), in the
\* integers.
Containing(user_addr, size) ==
    { i \in 1 .. Len(dmabuf_list) :
        /\ dmabuf_list[i].user_addr <= user_addr
        /\ user_addr + size <= dmabuf_list[i].user_addr + dmabuf_list[i].size }

\* C5: a range resolves exactly when one live allocation fully contains it,
\* and then to the bus address at the same offset.
C5_ResolvesExactlyContainedRanges ==
    res.asked =>
        /\ (res.dma_addr # NULL) <=> (Containing(res.user_addr, res.size) # {})
        /\ \A i \in Containing(res.user_addr, res.size) :
              res.dma_addr = dmabuf_list[i].dma_addr
                                + (res.user_addr - dmabuf_list[i].user_addr)

\* The DMA memory the resolver's entries stand for.
Backing ==
    { [dma_addr |-> dmabuf_list[i].dma_addr, size |-> dmabuf_list[i].size] :
        i \in 1 .. Len(dmabuf_list) }

\* The scatter-gather entry lies in DMA memory that is held.
InHeldMemory(e) ==
    \E r \in coherent :
        r.dma_addr <= e.addr /\ e.addr + e.len <= r.dma_addr + r.size

\* C6: the resolver's entries and the DMA memory held are the same, and no
\* descriptor in flight or queued refers to memory that is no longer held.
C6_NoDanglingBusAddress ==
    /\ Backing = coherent
    /\ \A c \in ChanIds : \A d \in Descriptors(c) :
          \A i \in 1 .. Len(d.sg) : InHeldMemory(d.sg[i])

\* The conditions a command reports.
ErrorConditions ==
    {"NoSuchChannel", "AddressingFault", "AllocationExhausted", "EngineBusy",
     "TransferTimedOut", "InvalidArgument"}

\* C7: a command that met an error condition returns a negative status.
C7_ErrorsAreNegative ==
    (pc = "returned" /\ last.cmd \in Commands /\ last.err \in ErrorConditions)
    => last.rc < 0

\* C8: StopChannel with a triple that matches no registered channel returns
\* -ENODEV and terminates nothing.
C8_StopUnknownChannelFails ==
    (/\ pc = "returned"
     /\ last.cmd = "stop"
     /\ ~Registered(last.req.channel_id, last.req.type, last.req.dir))
    => (last.rc = -ENODEV /\ calls = << >>)

\* StopChannel was refused for a registered id of another kind or direction.
C8_Witness ==
    /\ pc = "returned"
    /\ last.cmd = "stop"
    /\ last.req.channel_id \in ChanIds
    /\ ~Registered(last.req.channel_id, last.req.type, last.req.dir)
    /\ last.rc = -ENODEV

\* C9: a successful StopChannel on channel c leaves nothing in flight or
\* queued on c, and leaves the queues of every other channel as they were.
C9_StopDiscardsAllOnChannelOnly ==
    [][ (pc = "idle" /\ pc' = "returned" /\ last'.cmd = "stop"
                     /\ last'.rc = 0) =>
            /\ last'.chan \in ChanIds
            /\ pending'[last'.chan] = << >>
            /\ active'[last'.chan] = << >>
            /\ \A d \in ChanIds \ {last'.chan} :
                  pending'[d] = pending[d] /\ active'[d] = active[d] ]_vars

\* StopChannel succeeded on a channel that had taken two descriptors and
\* completed neither.
C9_Witness ==
    /\ pc = "returned"
    /\ last.cmd = "stop"
    /\ last.rc = 0
    /\ next_cookie[last.chan] >= 2
    /\ completed[last.chan] = 0

\* A cyclic descriptor of channel c is gone after the step.
CyclicRetired(c) ==
    \E d \in Descriptors(c) :
        /\ d.cyclic
        /\ \A i \in 1 .. Len(active'[c]) : active'[c][i] # d
        /\ \A i \in 1 .. Len(pending'[c]) : pending'[c][i] # d

\* The step called terminate-all on channel c.
Terminated(c) ==
    \E i \in 1 .. Len(calls') :
        /\ i > (IF pc = "wait" THEN Len(calls) ELSE 0)
        /\ calls' # calls
        /\ calls'[i] = [op |-> "terminate_all", chan |-> c]

\* A StreamWrite that put its descriptors to the engine returned 0 at once,
\* and its cyclic descriptor is the newest in flight on its channel.
StreamWriteReturnsAtOnce ==
    (/\ pc = "idle"
     /\ pc' # "idle"
     /\ \E i \in 1 .. Len(calls') : calls'[i].op = "issue_pending"
     /\ \/ pc' = "wait" /\ cur'.cmd = "video_write"
        \/ pc' = "returned" /\ last'.cmd = "video_write")
    => /\ pc' = "returned"
       /\ last'.rc = 0
       /\ active'[last'.chan] # << >>
       /\ active'[last'.chan][Len(active'[last'.chan])].cyclic

C11_StreamStoppedByStreamStop ==
    (pc = "returned" /\ last.cmd = "video_write" /\ last.chan \in ChanIds)
    => /\ axidma_stop_channel(
              [channel_id |-> last.req.channel_id, type |-> AXIDMA_VDMA,
               dir |-> AXIDMA_WRITE]).chan = last.chan
       /\ axidma_stop_transfer(last.req.channel_id, AXIDMA_WRITE).chan
             = last.chan

\* The newest descriptor the engine holds for channel c.
Newest(c) ==
    IF pending[c] # << >> THEN pending[c][Len(pending[c])]
    ELSE active[c][Len(active[c])]

\* The command logged a submit on channel c that no terminate followed.
SubmittedOn(c) ==
    \E i \in 1 .. Len(calls) :
        /\ calls[i] = [op |-> "submit", chan |-> c]
        /\ \A j \in (i + 1) .. Len(calls) :
              calls[j] # [op |-> "terminate_all", chan |-> c]

\* The descriptor list the request asks for on a channel of direction dir.
ExpectedList(cmd, req, dir) ==
    IF cmd = "video_write"
    THEN [i \in 1 .. req.num_frame_buffers |->
            [addr |-> axidma_uservirt_to_dma(
                          dmabuf_list, req.frame_buffers[i],
                          req.width * req.height * req.depth),
             len |-> req.width * req.height * req.depth]]
    ELSE IF cmd = "readwrite"
    THEN IF dir = AXIDMA_WRITE
         THEN << [addr |-> axidma_uservirt_to_dma(dmabuf_list, req.tx_buf,
                                                  req.tx_buf_len),
                  len |-> req.tx_buf_len] >>
         ELSE << [addr |-> axidma_uservirt_to_dma(dmabuf_list, req.rx_buf,
                                                  req.rx_buf_len),
                  len |-> req.rx_buf_len] >>
    ELSE << [addr |-> axidma_uservirt_to_dma(dmabuf_list, req.buf,
                                             req.buf_len),
             len |-> req.buf_len] >>

EntriesOf(list, type, dir) ==
    Cardinality({ i \in 1 .. Len(list) :
                    list[i].type = type /\ list[i].dir = dir })

\* C13: after initialisation, the count GetChannelCount reports for every
\* kind and direction equals the number of entries of that kind and
\* direction among the channels GetChannels returns, and the reported total
\* equals the sum of the four counts and the number of entries returned.
C13_CountsMatchEntries ==
    (probe.state = "init" /\ probe.reply.kind = "chans") =>
        LET num  == probe.reply.num
            list == probe.reply.channels
        IN  /\ num.num_dma_tx_channels =
                   EntriesOf(list, AXIDMA_DMA, AXIDMA_WRITE)
            /\ num.num_dma_rx_channels =
                   EntriesOf(list, AXIDMA_DMA, AXIDMA_READ)
            /\ num.num_vdma_tx_channels =
                   EntriesOf(list, AXIDMA_VDMA, AXIDMA_WRITE)
            /\ num.num_vdma_rx_channels =
                   EntriesOf(list, AXIDMA_VDMA, AXIDMA_READ)
            /\ num.num_channels =
                   num.num_dma_tx_channels + num.num_dma_rx_channels +
                   num.num_vdma_tx_channels + num.num_vdma_rx_channels
            /\ num.num_channels = Len(list)

\* C14: registering an allocation whose process-address range overlaps a
\* live allocation is rejected, so no two live allocations overlap in
\* process-address space.
C14_AllocationsNeverOverlap ==
    \A i, j \in 1 .. Len(dmabuf_list) :
        i # j => ~Overlap(dmabuf_list[i].user_addr, dmabuf_list[i].size,
                          dmabuf_list[j].user_addr, dmabuf_list[j].size)

\* The allocation a munmap that has just returned released.
Released(req) ==
    [user_addr |-> req.vm_start, size |-> req.size, dma_addr |-> req.dma_addr,
     mm |-> req.mm]

\* C15: releasing a mapping removes exactly that allocation from the list
\* and frees its memory; afterwards no address of the released range
\* resolves, and every other live allocation resolves to the bus address it
\* resolved to before.
C15_ReleaseRemovesExactlyThat ==
    [][ (pc = "idle" /\ pc' = "returned" /\ last'.cmd = "munmap") =>
          /\ \E i \in 1 .. Len(dmabuf_list) :
                /\ dmabuf_list[i] = Released(last'.req)
                /\ dmabuf_list' = Without(dmabuf_list, i)
          /\ [dma_addr |-> last'.req.dma_addr, size |-> last'.req.size]
                \notin coherent'
          /\ \A a \in Range(last'.req.vm_start, last'.req.size) :
                axidma_uservirt_to_dma(dmabuf_list', a, 1) = NULL
          /\ \A j \in 1 .. Len(dmabuf_list') :
                axidma_uservirt_to_dma(dmabuf_list', dmabuf_list'[j].user_addr,
                                       dmabuf_list'[j].size)
                  = axidma_uservirt_to_dma(dmabuf_list,
                                           dmabuf_list'[j].user_addr,
                                           dmabuf_list'[j].size) ]_vars

\* The step is the completion of the oldest descriptor in flight on channel c.
CompletesOn(c) ==
    /\ active[c] # << >>
    /\ ~Head(active[c]).cyclic
    /\ active' = [active EXCEPT ![c] = Tail(active[c])]
    /\ pending' = pending
    /\ pc' = pc

\* The notification of a transfer of channel c prepared with `tfr`.
NotificationOf(c, tfr) ==
    [si_signo |-> tfr.notify_signal, si_int |-> c, process |-> tfr.process]

\* C16: when a NonBlocking transfer completes, no waiter is woken, and one
\* notification, with the signal configured and the id of the channel that
\* completed, is sent to the process recorded at submission if and only if
\* a valid signal was configured; the completion of a Blocking transfer
\* sends no signal.
C16_NonBlockingCompletionNotifies ==
    [][ \A c \in ChanIds :
          CompletesOn(c) =>
            LET tfr == Head(active[c]).tfr
            IN  IF tfr.wait THEN sent' = << >>
                ELSE /\ cur'.done = cur.done
                     /\ sent' = IF VALID_NOTIFY_SIGNAL(tfr.notify_signal)
                                THEN << NotificationOf(c, tfr) >>
                                ELSE << >> ]_vars

C18_OnlyRealTimeSignalStored ==
    [][ (pc = "idle" /\ pc' = "returned" /\ last'.cmd = "set_signal") =>
          IF last'.req.signal \in SIGRTMIN .. SIGRTMAX
          THEN last'.rc = 0 /\ notify_signal' = last'.req.signal
          ELSE last'.rc = -EINVAL /\ notify_signal' = notify_signal ]_vars

\* A signal outside the real-time ones was refused after a real-time one
\* had been configured, which is still the one configured.
C18_Witness ==
    /\ pc = "returned"
    /\ last.cmd = "set_signal"
    /\ last.rc = -EINVAL
    /\ last.req.signal \notin SIGRTMIN .. SIGRTMAX
    /\ notify_signal \in SIGRTMIN .. SIGRTMAX

\* C19: in a ReadWrite the transmit transfer is submitted NonBlocking
\* whatever the caller asked for and only the receive transfer takes the
\* caller's mode: the call never waits for the transmit completion, a
\* non-blocking ReadWrite returns without waiting at all, and a blocking one
\* returns success once its receive transfer has completed and woken it,
\* the transmit channel being left as it is.
C19_OnlyReceiveIsWaitedFor ==
    [][ /\ (pc = "idle" /\ pc' \in {"wait", "returned"} /\
            TheCmd' = "readwrite") =>
              /\ pc' = "wait" =>
                    TheReq'.wait /\ cur'.chan = TheReq'.rx_channel_id
              /\ ~TheReq'.wait => pc' = "returned"
              /\ \A c \in ChanIds :
                    SubmittedOn(c)' =>
                      IF Channel(c).dir = AXIDMA_WRITE
                      THEN ~Newest(c)'.tfr.wait /\ ~cb_data'[c].comp
                      ELSE Newest(c)'.tfr.wait = TheReq'.wait
        /\ (pc = "wait" /\ cur.cmd = "readwrite" /\ pc' = "returned" /\
            cur.done /\ DmaSuccess(cur.chan, cur.cookie)) =>
              /\ last'.rc = 0
              /\ active'[cur.req.tx_channel_id] = active[cur.req.tx_channel_id]
              /\ pending'[cur.req.tx_channel_id]
                    = pending[cur.req.tx_channel_id] ]_vars

\* A blocking ReadWrite has returned success while its transmit transfer is
\* still in flight.
C19_Witness ==
    /\ pc = "returned"
    /\ last.cmd = "readwrite"
    /\ last.req.wait
    /\ last.rc = 0
    /\ active[last.req.tx_channel_id] # << >>
    /\ ~Newest(last.req.tx_channel_id).tfr.wait

\* The receive wait of a blocking ReadWrite runs out: -ETIME, the receive
\* channel is terminated, and the transmit channel is not touched.
ReceiveTimeoutSparesTransmit ==
    (pc = "wait" /\ cur.cmd = "readwrite" /\ ~cur.done /\ pc' = "returned")
    => /\ last'.rc = -ETIME
       /\ cur.chan = cur.req.rx_channel_id
       /\ active'[cur.chan] = << >>
       /\ pending'[cur.chan] = << >>
       /\ active'[cur.req.tx_channel_id] = active[cur.req.tx_channel_id]
       /\ pending'[cur.req.tx_channel_id] = pending[cur.req.tx_channel_id]
       /\ \A c \in ChanIds : Terminated(c) => c = cur.chan

\* A transmit descriptor of a ReadWrite is gone from channel c after the step.
TransmitRetired(c) ==
    \E d \in Descriptors(c) :
        /\ d.tfr.cmd = "readwrite"
        /\ Channel(c).dir = AXIDMA_WRITE
        /\ \A i \in 1 .. Len(active'[c]) : active'[c][i] # d
        /\ \A i \in 1 .. Len(pending'[c]) : pending'[c][i] # d

RejectedByEngine ==
    /\ pc = "idle"
    /\ pc' = "returned"
    /\ last'.cmd \in TransferCmds
    /\ last'.err = "EngineBusy"

\* The step had a descriptor accepted by the engine on channel c.
SubmittedInStep(c) == next_cookie'[c] # next_cookie[c]

\* C21: a transaction in which the engine rejects the configuration, the
\* preparation or the submission returns -EBUSY, and the channels it
\* terminates are exactly those on which it had submitted a descriptor.
C21_RejectionTerminatesSubmitted ==
    [][ RejectedByEngine
        => /\ last'.rc = -EBUSY
           /\ \A c \in ChanIds : Terminated(c) <=> SubmittedInStep(c) ]_vars

\* A ReadWrite returned an error after the engine had accepted its transmit
\* descriptor.
FailedAfterTransmitSubmitted ==
    /\ pc = "idle"
    /\ pc' = "returned"
    /\ last'.cmd = "readwrite"
    /\ last'.err = "EngineBusy"
    /\ SubmittedInStep(last'.req.tx_channel_id)

\* Such a ReadWrite returns the error, and its transmit descriptor is queued
\* on the transmit channel: submitted once, not issued, not terminated.
TransmitLeftBehind ==
    FailedAfterTransmitSubmitted
    => LET tx == last'.req.tx_channel_id
       IN  /\ last'.rc < 0
           /\ ~Terminated(tx)
           /\ active'[tx] = active[tx]
           /\ Len(pending'[tx]) = Len(pending[tx]) + 1
           /\ pending'[tx][Len(pending'[tx])].tfr.cmd = "readwrite"
           /\ next_cookie'[tx] = next_cookie[tx] + 1

\* A transmit descriptor that a failed ReadWrite left queued on channel c
\* is gone from the channel after the step. (Commands are atomic: between
\* steps only a failed ReadWrite has a descriptor submitted and not issued.)
LeftoverRetired(c) ==
    \E k \in 1 .. Len(pending[c]) :
        /\ pending[c][k].tfr.cmd = "readwrite"
        /\ Channel(c).dir = AXIDMA_WRITE
        /\ \A i \in 1 .. Len(active'[c]) : active'[c][i] # pending[c][k]
        /\ \A i \in 1 .. Len(pending'[c]) : pending'[c][i] # pending[c][k]

C23_BlockingOutcomes ==
    [][ (pc = "wait" /\ pc' = "returned")
        => /\ last'.cmd = cur.cmd
           /\ \/ /\ last'.rc = 0
                 /\ cur.done
                 /\ DmaSuccess(cur.chan, cur.cookie)
                 /\ \A c \in ChanIds : ~Terminated(c)
              \/ /\ last'.rc = -ETIME
                 /\ ~cur.done
                 /\ Terminated(cur.chan)
              \/ /\ last'.rc = -EBUSY
                 /\ cur.done
                 /\ ~DmaSuccess(cur.chan, cur.cookie)
                 /\ Terminated(cur.chan) ]_vars

\* A blocking transfer was woken by the completion of an earlier descriptor
\* of its channel, found its own cookie not complete and returned -EBUSY.
C23_Witness ==
    /\ pc = "returned"
    /\ last.cmd \in {"read", "write", "readwrite"}
    /\ last.req.wait
    /\ last.rc = -EBUSY
    /\ \E i \in 1 .. Len(calls) : calls[i].op = "issue_pending"
    /\ calls[Len(calls)] = [op |-> "terminate_all", chan |-> last.chan]
    /\ ~DmaSuccess(last.chan, next_cookie[last.chan])

\* The device with a clock: wait_for_completion_timeout returns, either
\* because its bound of AXIDMA_DMA_TIMEOUT ms ran out or because the
\* completion was done, and the woken caller runs on.  Nothing is assumed
\* of the engine: it may never complete anything.
SpecLive == Spec /\ WF_vars(WaitTimeout) /\ WF_vars(WaitWake)

\* Only a blocking Read, Write or ReadWrite makes its caller wait.
OnlyBlockingWaits ==
    (pc = "idle" /\ pc' = "wait")
    => /\ cur'.cmd \in {"read", "write", "readwrite"}
       /\ cur'.req.wait

\* C24: every command returns to its caller: a non-blocking transfer does
\* so in the step that issues it, a blocking one when its completion is
\* done or, failing that, when the bound of the wait runs out.
C24_EveryCommandReturns ==
    /\ [][OnlyBlockingWaits]_vars
    /\ (pc = "wait") ~> (pc = "returned")

\* A blocking transfer returned -ETIME from a channel on which the engine
\* never completed anything: the bound of the wait ended the wait.
C24_Witness ==
    /\ pc = "returned"
    /\ last.cmd \in {"read", "write", "readwrite"}
    /\ last.req.wait
    /\ last.rc = -ETIME
    /\ \A c \in ChanIds : completed[c] = 0

\* C25: while the device is in service, terminate-all is called on a
\* channel only by a StopChannel that names the channel or by the timeout
\* of a blocking transfer waiting on the channel.
C25_TerminateOnlyByStopOrTimeout ==
    [][ \A c \in ChanIds :
          (Terminated(c) /\ pc' # "exit")
          => \/ /\ pc = "idle"
                /\ pc' = "returned"
                /\ last'.cmd = "stop"
                /\ last'.chan = c
             \/ /\ pc = "wait"
                /\ ~cur.done
                /\ cur.chan = c
                /\ last'.rc = -ETIME ]_vars

(***************************************************************************)
(* Channel lookup.  The probing driver keeps the channels it was granted   *)
(* in an array whose entries carry their id, and searches it; the newer    *)
(* driver indexes its array by the id.                                     *)
(***************************************************************************)

\* The longest channel array looked up in.
MaxRegistry == 3

\* The channel arrays: the dmaengine grants a channel once, so the entries
\* of an array differ.
Registries ==
    { reg \in SeqsUpTo(HwChannels, MaxRegistry) :
        \A i, j \in 1 .. Len(reg) : i # j => reg[i] # reg[j] }

\* The first index from i on whose entry has the type, direction and id; 0 if none.
RECURSIVE SearchFrom(_, _, _, _, _)
SearchFrom(reg, i, chan_id, chan_type, chan_dir) ==
    IF i > Len(reg) THEN 0
    ELSE IF reg[i].type = chan_type /\ reg[i].dir = chan_dir /\
            reg[i].channel_id = chan_id
         THEN i
         ELSE SearchFrom(reg, i + 1, chan_id, chan_type, chan_dir)

\* A plausible bug: the search compares the id alone.
axidma_get_chan_search_IdOnly(dev, chan_id, chan_type, chan_dir) ==
    IF \E i \in 1 .. Len(dev.channels) : dev.channels[i].channel_id = chan_id
    THEN CHOOSE i \in 1 .. Len(dev.channels) :
             /\ dev.channels[i].channel_id = chan_id
             /\ \A j \in 1 .. (i - 1) : dev.channels[j].channel_id # chan_id
    ELSE 0

\* axidma_get_chan of the probing driver: the index (from 1) of the first
\* entry with this type, direction and id, or 0 (NULL).
axidma_get_chan_search(dev, chan_id, chan_type, chan_dir) ==
    SearchFrom(dev.channels, 1, chan_id, chan_type, chan_dir)

\* The entries of reg of one kind and direction.
CountOf(reg, type, dir) ==
    Cardinality({ i \in 1 .. Len(reg) :
                    reg[i].type = type /\ reg[i].dir = dir })

\* The device after an initialisation that stored the array reg and
\* counted its entries.
ProbedDev(reg) ==
    [NoDev EXCEPT !.kmalloced = TRUE, !.capacity = Len(reg),
                  !.channels = reg, !.num_chans = Len(reg),
                  !.num_dma_tx_chans = CountOf(reg, AXIDMA_DMA, AXIDMA_WRITE),
                  !.num_dma_rx_chans = CountOf(reg, AXIDMA_DMA, AXIDMA_READ),
                  !.num_vdma_tx_chans = CountOf(reg, AXIDMA_VDMA, AXIDMA_WRITE),
                  !.num_vdma_rx_chans = CountOf(reg, AXIDMA_VDMA, AXIDMA_READ)]

\* The device is in service, initialised as dev.
InService(dev) ==
    /\ channels = ProbedChannels
    /\ probe = [NoProbe EXCEPT !.state = "init", !.dev = dev]
    /\ files = {}
    /\ chrdev = ChrdevInService
    /\ prog = NoProg
    /\ notify_signal = NoSignal
    /\ sent = << >>
    /\ dmabuf_list = << >>
    /\ coherent = {}
    /\ kmalloced = {}
    /\ pending = [c \in 0 .. (Len(ProbedChannels) - 1) |-> << >>]
    /\ active = [c \in 0 .. (Len(ProbedChannels) - 1) |-> << >>]
    /\ completed = [c \in 0 .. (Len(ProbedChannels) - 1) |-> 0]
    /\ next_cookie = [c \in 0 .. (Len(ProbedChannels) - 1) |-> 0]
    /\ passes = [c \in 0 .. (Len(ProbedChannels) - 1) |-> 0]
    /\ cb_data = [c \in 0 .. (Len(ProbedChannels) - 1) |->
                    [channel_id |-> c, comp |-> FALSE,
                     notify_signal |-> NoSignal, process |-> NULL]]
    /\ pc = "idle"
    /\ cur = NoCur
    /\ last = NoLast
    /\ calls = << >>
    /\ res = NoRes

\* The device is in service with some channel array.
InitLookup == \E reg \in Registries : InService(ProbedDev(reg))

\* The triples looked up.
LookupArgs ==
    [channel_id : -1 .. num_chans, type : {AXIDMA_DMA, AXIDMA_VDMA},
     dir : {AXIDMA_WRITE, AXIDMA_READ}]

\* A command of the probing driver looks a channel up.
GetChanSearch ==
    /\ probe.state = "init"
    /\ \E a \in LookupArgs :
          probe' = [probe EXCEPT !.reply =
                       [kind |-> "search", req |-> a,
                        found |-> axidma_get_chan_search(
                                      probe.dev, a.channel_id, a.type, a.dir)]]
    /\ UNCHANGED probe_frame

\* A command of the newer driver looks a channel up.
GetChanIndexed ==
    /\ probe.state = "init"
    /\ \E a \in LookupArgs :
          probe' = [probe EXCEPT !.reply =
                       [kind |-> "indexed", req |-> a,
                        found |-> axidma_get_chan(a.channel_id, a.type, a.dir)]]
    /\ UNCHANGED probe_frame

NextLookup == GetChanSearch \/ GetChanIndexed

SpecLookup == InitLookup /\ [][NextLookup]_vars

\* C26: a lookup returns a channel only if the channel's id, kind and
\* direction all equal the requested ones, and returns not-found exactly
\* when no registered channel has all three; of two channels that share an
\* id it returns the one whose kind and direction match too.
C26_LookupMatchesAllThree ==
    /\ probe.reply.kind = "search" =>
          LET a   == probe.reply.req
              reg == probe.dev.channels
              i   == probe.reply.found
          IN  /\ i # 0 => /\ i \in 1 .. Len(reg)
                          /\ reg[i].channel_id = a.channel_id
                          /\ reg[i].type = a.type
                          /\ reg[i].dir = a.dir
              /\ i = 0 => \A j \in 1 .. Len(reg) :
                              \/ reg[j].channel_id # a.channel_id
                              \/ reg[j].type # a.type
                              \/ reg[j].dir # a.dir
    /\ probe.reply.kind = "indexed" =>
          LET a == probe.reply.req
              c == probe.reply.found
          IN  /\ c # NoChan => /\ c = a.channel_id
                               /\ Channel(c).type = a.type
                               /\ Channel(c).dir = a.dir
              /\ c = NoChan => ~Registered(a.channel_id, a.type, a.dir)

\* The search passed over a channel with the requested id and another kind
\* or direction, and returned the channel that has all three.
C26_Witness ==
    /\ probe.reply.kind = "search"
    /\ probe.reply.found > 1
    /\ probe.dev.channels[1].channel_id = probe.reply.req.channel_id

(***************************************************************************)
(* The device in service, with every command of its interface.             *)
(***************************************************************************)

\* The channel array of the device, each entry with its id.
RegistryOf(chans) ==
    [i \in 1 .. Len(chans) |->
        [channel_id |-> i - 1, type |-> chans[i].type, dir |-> chans[i].dir]]

InitRegistry == InService(ProbedDev(RegistryOf(ProbedChannels)))

\* A plausible bug: the query counts the channels anew, as the probing does,
\* and leaves the total reset.
GetNumChannelsCmd_Recounts ==
    /\ pc = "idle"
    /\ probe.state = "init"
    /\ pc' = "returned"
    /\ last' = [cmd |-> "get_num_channels", req |-> NoReq, rc |-> 0,
                err |-> "none", chan |-> NoChan,
                reply |-> axidma_get_num_channels(probe.dev)]
    /\ probe' = [probe EXCEPT !.dev.num_chans = 0]
    /\ calls' = << >>
    /\ sent' = << >>
    /\ UNCHANGED << channels, chrdev, prog, files, notify_signal, alloc_vars, engine_vars,
                    cur, res >>

\* AXIDMA_GET_NUM_DMA_CHANNELS as a command of the client: the counts are
\* copied out to the caller.
GetNumChannelsCmd ==
    /\ pc = "idle"
    /\ probe.state = "init"
    /\ pc' = "returned"
    /\ last' = [cmd |-> "get_num_channels", req |-> NoReq, rc |-> 0,
                err |-> "none", chan |-> NoChan,
                reply |-> axidma_get_num_channels(probe.dev)]
    /\ calls' = << >>
    /\ sent' = << >>
    /\ UNCHANGED << channels, chrdev, prog, files, probe, notify_signal, alloc_vars, engine_vars,
                    cur, res >>

\* AXIDMA_GET_DMA_CHANNELS as a command of the client: num_chans entries of
\* dev->channels are copied out to the caller.
GetChannelsCmd ==
    /\ pc = "idle"
    /\ probe.state = "init"
    /\ \E read \in ChannelArrayReads(probe.dev) :
          last' = [cmd |-> "get_channels", req |-> NoReq, rc |-> 0,
                   err |-> "none", chan |-> NoChan, reply |-> read]
    /\ pc' = "returned"
    /\ calls' = << >>
    /\ sent' = << >>
    /\ UNCHANGED << channels, chrdev, prog, files, probe, notify_signal, alloc_vars, engine_vars,
                    cur, res >>

\* The commands of the interface.  The engine is silent here: it completes
\* nothing, so a blocking transfer returns by the timeout of its wait.
NextRegistry ==
    \/ GetNumChannelsCmd
    \/ GetChannelsCmd
    \/ SetNotifySignal
    \/ Read
    \/ Write
    \/ ReadWrite
    \/ VideoWrite
    \/ StopChannel
    \/ Mmap
    \/ Munmap
    \/ WaitTimeout
    \/ ReturnToUser

SpecRegistry == InitRegistry /\ [][NextRegistry]_vars

\* C27: once the device is initialised no command, successful or failed,
\* adds, removes or changes an entry of the channel array or changes a
\* channel count.
C27_RegistryReadOnly ==
    [][ /\ channels' = channels
        /\ probe'.dev = probe.dev ]_vars

\* A StopChannel has just succeeded, after a signal was set and a buffer
\* registered, and the channel array and counts are those of initialisation.
C27_Witness ==
    /\ pc = "returned"
    /\ last.cmd = "stop"
    /\ last.rc = 0
    /\ notify_signal # NoSignal
    /\ dmabuf_list # << >>
    /\ \E c \in ChanIds : next_cookie[c] > 0
    /\ channels = ProbedChannels
    /\ probe.dev = ProbedDev(RegistryOf(ProbedChannels))

\* Positions of the log at which `op` was called on channel c.
CallsOn(op, c) ==
    { i \in 1 .. Len(calls) : calls[i] = [op |-> op, chan |-> c] }

\* C28: at teardown every channel is released exactly once, its release
\* follows directly on a terminate-all of the channel, and nothing is left
\* in flight or queued on any channel.
C28_TerminatedThenReleasedOnce ==
    pc = "exit"
    => \A c \in ChanIds :
          /\ Cardinality(CallsOn("release_channel", c)) = 1
          /\ \A i \in CallsOn("release_channel", c) :
                i > 1 /\ calls[i - 1] = [op |-> "terminate_all", chan |-> c]
          /\ active[c] = << >>
          /\ pending[c] = << >>

\* The device was torn down with a transfer on some channel that the engine
\* had accepted and never completed.
C28_Witness ==
    /\ pc = "exit"
    /\ \E c \in ChanIds : next_cookie[c] > completed[c]
    /\ Len(calls) = 2 * num_chans

(***************************************************************************)
(* Opening and closing the device file (axidma_chrdev.c).                  *)
(***************************************************************************)

\* The files of the device open at a time.
MaxOpens == 2

\* axidma_open: the caller must be capable of CAP_SYS_ADMIN and must have
\* passed O_EXCL; nothing else is looked at.
axidma_open(capable, o_excl) ==
    IF ~capable THEN -EACCES
    ELSE IF ~o_excl THEN -EINVAL
    ELSE 0

\* A file descriptor not in use.
FreeFd == CHOOSE fd \in 1 .. MaxOpens : \A f \in files : f.fd # fd

\* A process opens the device.
Open ==
    /\ pc = "idle"
    /\ Cardinality(files) < MaxOpens
    /\ \E p \in Mms, capable \in BOOLEAN, o_excl \in BOOLEAN :
          LET rc == axidma_open(capable, o_excl)
          IN  /\ files' = IF rc = 0
                          THEN files \cup {[process |-> p, fd |-> FreeFd]}
                          ELSE files
              /\ last' = [cmd |-> "open",
                          req |-> [process |-> p, capable |-> capable,
                                   o_excl |-> o_excl],
                          rc |-> rc, err |-> "none", chan |-> NoChan]
    /\ pc' = "returned"
    /\ calls' = << >>
    /\ sent' = << >>
    /\ UNCHANGED << channels, chrdev, prog, probe, notify_signal, alloc_vars, engine_vars,
                    cur, res >>

\* axidma_release: a process closes its file.
Release ==
    /\ pc = "idle"
    /\ \E f \in files :
          /\ files' = files \ {f}
          /\ last' = [cmd |-> "release", req |-> [process |-> f.process],
                      rc |-> 0, err |-> "none", chan |-> NoChan]
    /\ pc' = "returned"
    /\ calls' = << >>
    /\ sent' = << >>
    /\ UNCHANGED << channels, chrdev, prog, probe, notify_signal, alloc_vars, engine_vars,
                    cur, res >>

\* axidma_ioctl on an open file: the device is the file's private data, so
\* every process with an open file commands the one device.
IoctlSetSignal ==
    /\ pc = "idle"
    /\ \E f \in files, signal \in SignalArgs :
         LET r == axidma_set_signal(signal)
         IN  /\ notify_signal' = r.notify_signal
             /\ last' = [cmd |-> "set_signal",
                         req |-> [signal |-> signal, process |-> f.process],
                         rc |-> r.rc,
                         err |-> IF r.rc < 0 THEN "InvalidArgument" ELSE "none",
                         chan |-> NoChan]
    /\ calls' = << >>
    /\ pc' = "returned"
    /\ sent' = << >>
    /\ UNCHANGED << channels, chrdev, prog, files, probe, alloc_vars, engine_vars, cur, res >>

NextOpen == Open \/ Release \/ IoctlSetSignal \/ ReturnToUser

SpecOpen == Init /\ [][NextOpen]_vars

\* The processes that hold the device open.
Holders == { f.process : f \in files }

\* C29: at most one client holds the device open at any time, and an open
\* succeeds only for a privileged caller that asks for exclusive access.
C29_SingleExclusiveOpener ==
    /\ Cardinality(Holders) <= 1
    /\ (pc = "returned" /\ last.cmd = "open" /\ last.rc = 0)
       => (last.req.capable /\ last.req.o_excl)

(***************************************************************************)
(* AXIDMA_DMA_VIDEO_WRITE with any frame-buffer count the caller can pass. *)
(***************************************************************************)

\* The video requests, with counts from -1 on; a count below 1 comes with
\* no frame buffer.
VideoRequests ==
    { r \in { [channel_id |-> id, num_frame_buffers |-> n,
               frame_buffers |-> f,
               width |-> g[1], height |-> g[2], depth |-> g[3]] :
                 id \in ChanArgs, n \in -1 .. MaxFrames,
                 f \in SeqsUpTo(FrameBufs, MaxFrames), g \in Geometries } :
        Len(r.frame_buffers) =
            IF r.num_frame_buffers < 0 THEN 0 ELSE r.num_frame_buffers }

\* kmalloc of n scatter-gather entries: for n = 0 it hands back
\* ZERO_SIZE_PTR, which is not NULL; otherwise it may fail.
KmallocAnswers(n) == IF n = 0 THEN {TRUE} ELSE BOOLEAN

\* axidma_ioctl checks that num_frame_buffers * sizeof(frame_buffers[0])
\* bytes at frame_buffers are accessible.  The product is a size_t, so a
\* negative count makes a size no address range has and -EFAULT is
\* returned; a count of 0 makes size 0, which passes.  Then
\* axidma_video_write_transfer runs.
VideoWriteAny ==
    /\ pc = "idle"
    /\ \E trans \in VideoRequests :
         IF trans.num_frame_buffers < 0
         THEN Finish("video_write", trans,
                     Returned(Here, -EFAULT, "AddressingFault"))
         ELSE \E kmalloc_ok \in KmallocAnswers(trans.num_frame_buffers) :
                \E eng \in OutcomesFor(
                       axidma_video_write_transfer(trans, kmalloc_ok, EngineOk)) :
                   Finish("video_write", trans,
                          axidma_video_write_transfer(trans, kmalloc_ok, eng))

NextStream ==
    \/ Mmap
    \/ VideoWriteAny
    \/ StopChannel
    \/ CyclicPass
    \/ ReturnToUser

SpecStream == Init /\ [][NextStream]_vars

\* C30: a StreamWrite whose frame-buffer count is zero or less makes no
\* call that configures the channel, prepares a descriptor list or submits
\* one.
C30_NoFramesNothingSubmitted ==
    (/\ pc = "returned"
     /\ last.cmd = "video_write"
     /\ last.req.num_frame_buffers <= 0)
    => \A i \in 1 .. Len(calls) :
          calls[i].op \notin {"slave_config", "prep_slave_sg", "submit"}

(***************************************************************************)
(* The ioctl entry point (axidma_ioctl of axidma_chrdev.c, with the command *)
(* numbers of axidma_ioctl.h).                                             *)
(***************************************************************************)

AXIDMA_IOCTL_MAGIC == "W"
\* The number of ioctls implemented; their numbers are 0 .. 6.
AXIDMA_NUM_IOCTLS == 7

\* The command words of axidma_ioctl.h: _IOW for number 0, _IOR for the rest.
IoctlOf(nr) ==
    [type |-> AXIDMA_IOCTL_MAGIC, nr |-> nr,
     dir |-> IF nr = 0 THEN "_IOC_WRITE" ELSE "_IOC_READ"]

AXIDMA_GET_NUM_DMA_CHANNELS == IoctlOf(0)
AXIDMA_GET_DMA_CHANNELS     == IoctlOf(1)
AXIDMA_DMA_READ             == IoctlOf(2)
AXIDMA_DMA_WRITE            == IoctlOf(3)
AXIDMA_DMA_READWRITE        == IoctlOf(4)
AXIDMA_DMA_VIDEO_WRITE      == IoctlOf(5)
AXIDMA_STOP_DMA_CHANNEL     == IoctlOf(6)

\* The command words a caller passes: the seven of the header, one of
\* another device, a number of the header with another direction, and the
\* numbers from AXIDMA_NUM_IOCTLS on with every direction.
IoctlCmds ==
    { IoctlOf(nr) : nr \in 0 .. (AXIDMA_NUM_IOCTLS - 1) } \cup
    { [type |-> "X", nr |-> 2, dir |-> "_IOC_READ"],
      [type |-> AXIDMA_IOCTL_MAGIC, nr |-> 2, dir |-> "_IOC_WRITE"] } \cup
    [type : {AXIDMA_IOCTL_MAGIC},
     nr   : AXIDMA_NUM_IOCTLS .. (AXIDMA_NUM_IOCTLS + 1),
     dir  : {"_IOC_NONE", "_IOC_WRITE", "_IOC_READ"}]

\* The preamble of axidma_ioctl: the magic number, the range of the command
\* number, then the access check of the argument; 0 if the switch is reached.
axidma_ioctl_verify(cmd, arg_ok) ==
    IF cmd.type # AXIDMA_IOCTL_MAGIC THEN -ENOTTY
    ELSE IF cmd.nr > AXIDMA_NUM_IOCTLS THEN -ENOTTY
    ELSE IF cmd.dir # "_IOC_NONE" /\ ~arg_ok THEN -EFAULT
    ELSE 0

\* The argument structures a caller may pass with a command word.
IoctlArgs(cmd) ==
    IF cmd \in {AXIDMA_DMA_READ, AXIDMA_DMA_WRITE} THEN Transactions
    ELSE IF cmd = AXIDMA_DMA_READWRITE THEN InoutTransactions
    ELSE IF cmd = AXIDMA_DMA_VIDEO_WRITE THEN VideoTransactions
    ELSE IF cmd = AXIDMA_STOP_DMA_CHANNEL THEN ChanInfos
    ELSE {NoReq}

\* The switch of axidma_ioctl.  `copied` is whether copy_from_user (or, for
\* AXIDMA_GET_NUM_DMA_CHANNELS, copy_to_user) succeeds; `arg` is the
\* structure the handler is called with.  Every case returns -EFAULT when
\* its copy fails, but for AXIDMA_STOP_DMA_CHANNEL, which logs the failure
\* and goes on with the structure as it is.  AXIDMA_SET_DMA_SIGNAL has no
\* number in axidma_ioctl.h; a client sets the signal with SetNotifySignal.
axidma_ioctl_switch(cmd, copied, arg, kmalloc_ok, eng_tx, eng_rx) ==
    IF cmd = AXIDMA_GET_NUM_DMA_CHANNELS \/ cmd = AXIDMA_GET_DMA_CHANNELS
    THEN IF copied THEN Returned(Here, 0, "none")
         ELSE Returned(Here, -EFAULT, "AddressingFault")
    ELSE IF cmd = AXIDMA_DMA_READ
    THEN IF copied THEN axidma_read_transfer(arg, eng_rx)
         ELSE Returned(Here, -EFAULT, "AddressingFault")
    ELSE IF cmd = AXIDMA_DMA_WRITE
    THEN IF copied THEN axidma_write_transfer(arg, eng_tx)
         ELSE Returned(Here, -EFAULT, "AddressingFault")
    ELSE IF cmd = AXIDMA_DMA_READWRITE
    THEN IF copied THEN axidma_rw_transfer(arg, eng_tx, eng_rx)
         ELSE Returned(Here, -EFAULT, "AddressingFault")
    ELSE IF cmd = AXIDMA_DMA_VIDEO_WRITE
    THEN IF copied THEN axidma_video_write_transfer(arg, kmalloc_ok, eng_tx)
         ELSE Returned(Here, -EFAULT, "AddressingFault")
    ELSE IF cmd = AXIDMA_STOP_DMA_CHANNEL
    THEN axidma_stop_channel(arg)
    ELSE Returned(Here, -ENOTTY, "InvalidArgument")

\* axidma_ioctl.
axidma_ioctl(cmd, arg_ok, copied, arg, kmalloc_ok, eng_tx, eng_rx) ==
    IF axidma_ioctl_verify(cmd, arg_ok) # 0
    THEN Returned(Here, axidma_ioctl_verify(cmd, arg_ok), "InvalidArgument")
    ELSE axidma_ioctl_switch(cmd, copied, arg, kmalloc_ok, eng_tx, eng_rx)

\* A client calls ioctl.  When the copy of the argument fails the structure
\* in the kernel is what its stack held: any value.
Ioctl ==
    /\ pc = "idle"
    /\ \E cmd \in IoctlCmds, arg_ok \in BOOLEAN, copied \in BOOLEAN,
          kmalloc_ok \in BOOLEAN :
         \E arg \in IoctlArgs(cmd) :
            \E eng_tx, eng_rx \in
                  OutcomesFor(axidma_ioctl(cmd, arg_ok, copied, arg,
                                           kmalloc_ok, EngineOk, EngineOk)) :
               Finish("ioctl",
                      [cmd |-> cmd, arg_ok |-> arg_ok, copied |-> copied,
                       arg |-> IF copied THEN arg ELSE NoReq],
                      axidma_ioctl(cmd, arg_ok, copied, arg, kmalloc_ok,
                                   eng_tx, eng_rx))

NextIoctl == Ioctl \/ Mmap \/ WaitTimeout \/ ReturnToUser

SpecIoctl == Init /\ [][NextIoctl]_vars

\* An ioctl that is not one of the device's returned.
ForeignIoctl ==
    /\ pc = "returned"
    /\ last.cmd = "ioctl"
    /\ \/ last.req.cmd.type # AXIDMA_IOCTL_MAGIC
       \/ last.req.cmd.nr >= AXIDMA_NUM_IOCTLS

\* C31: an ioctl whose number is AXIDMA_NUM_IOCTLS or more, or whose magic
\* number is not the device's, returns -ENOTTY and calls nothing of the
\* engine, whatever its argument pointer.
C31_ForeignIoctlNotFound ==
    ForeignIoctl => (last.rc = -ENOTTY /\ calls = << >>)

\* The commands that take an argument structure.
ArgumentIoctls ==
    {AXIDMA_GET_DMA_CHANNELS, AXIDMA_DMA_READ, AXIDMA_DMA_WRITE,
     AXIDMA_DMA_READWRITE, AXIDMA_DMA_VIDEO_WRITE, AXIDMA_STOP_DMA_CHANNEL}

\* C32: when the copy of the argument structure from user space fails, the
\* command returns -EFAULT and calls nothing of the engine.
C32_FailedCopyReturnsFault ==
    (/\ pc = "returned"
     /\ last.cmd = "ioctl"
     /\ last.req.cmd \in ArgumentIoctls
     /\ last.req.arg_ok
     /\ ~last.req.copied)
    => (last.rc = -EFAULT /\ calls = << >>)

\* The end address of the request, computed without the word's width, lies
\* past the top of the address space.
EndWraps(user_addr, size) == user_addr + size > WordSize

\* C33: the resolver returns a bus address only for a request whose end
\* address does not wrap around the top of the address space.
C33_WrappedEndUnresolvable ==
    (res.asked /\ res.dma_addr # NULL) => ~EndWraps(res.user_addr, res.size)

\* C38: once the probing initialisation has run, the store pass has written
\* no channel at an index at or beyond the capacity the first pass counted,
\* and after a successful initialisation every index below num_chans holds a
\* channel the store pass reserved there.
C38_StorePassWithinCapacity ==
    (probe.state # "uninit") =>
        /\ probe.dev.overrun = << >>
        /\ (probe.state = "init" /\ probe.dev.kmalloced) =>
              /\ probe.dev.num_chans <= probe.dev.capacity
              /\ Len(probe.dev.channels) = probe.dev.num_chans
              /\ \A i \in 1 .. probe.dev.num_chans :
                    probe.dev.channels[i] \in HwChannels

(***************************************************************************)
(* The initialisation from the device tree (the axidma_dma.c that reads    *)
(* its channels from the platform device): count the channels, allocate    *)
(* the channel array and the callback array, parse the nodes, request      *)
(* every channel.  probe.dev is the device and the kernel resources it     *)
(* holds: `heap` the arrays kmalloc'ed and not freed, `held` the indices   *)
(* whose channel is requested and not released, `released` the indices     *)
(* released, in order.                                                     *)
(***************************************************************************)

\* The kind and direction of a channel node.
ChannelNodes ==
    { [type |-> t, dir |-> d] :
        t \in {AXIDMA_DMA, AXIDMA_VDMA}, d \in {AXIDMA_WRITE, AXIDMA_READ} }

\* struct axidma_device when axidma_dma_init is entered.
NoPlatformDev ==
    [step |-> "of_num_channels", failed |-> "none", rc |-> 0, num_chans |-> 0,
     heap |-> {}, nodes |-> << >>, i |-> 0, num_reserved_chans |-> 0,
     held |-> {}, released |-> << >>]

InitPlatform ==
    /\ channels = ProbedChannels
    /\ probe = [state |-> "platform", rc |-> 0, dev |-> NoPlatformDev,
                reply |-> NoReply]
    /\ files = {}
    /\ chrdev = ChrdevInService
    /\ prog = NoProg
    /\ notify_signal = NoSignal
    /\ sent = << >>
    /\ dmabuf_list = << >>
    /\ coherent = {}
    /\ kmalloced = {}
    /\ pending = [c \in 0 .. (Len(ProbedChannels) - 1) |-> << >>]
    /\ active = [c \in 0 .. (Len(ProbedChannels) - 1) |-> << >>]
    /\ completed = [c \in 0 .. (Len(ProbedChannels) - 1) |-> 0]
    /\ next_cookie = [c \in 0 .. (Len(ProbedChannels) - 1) |-> 0]
    /\ passes = [c \in 0 .. (Len(ProbedChannels) - 1) |-> 0]
    /\ cb_data = [c \in 0 .. (Len(ProbedChannels) - 1) |->
                    [channel_id |-> c, comp |-> FALSE,
                     notify_signal |-> NoSignal, process |-> NULL]]
    /\ pc = "idle"
    /\ cur = NoCur
    /\ last = NoLast
    /\ calls = << >>
    /\ res = NoRes

\* axidma_dma_init hands back rc.
DmaInitReturns(dev, rc, failed) ==
    [dev EXCEPT !.step = "returned", !.rc = rc, !.failed = failed]

\* The labels free_callback_data and free_channels of axidma_dma_init.
free_channels(dev) == [dev EXCEPT !.heap = @ \ {"channels"}]
free_callback_data(dev) == free_channels([dev EXCEPT !.heap = @ \ {"cb_data"}])

\* The label release_channels of axidma_request_channels: release channels
\* 0 .. num_reserved_chans - 1.
RECURSIVE release_channels(_, _)
release_channels(dev, i) ==
    IF i >= dev.num_reserved_chans THEN dev
    ELSE release_channels([dev EXCEPT !.held = @ \ {i},
                                      !.released = Append(@, i)], i + 1)

\* dev->num_chans = axidma_of_num_channels(pdev)
OfNumChannels ==
    /\ probe.dev.step = "of_num_channels"
    /\ \E n \in {-EINVAL} \cup (0 .. MaxRegistry) :
          probe' = [probe EXCEPT !.dev =
                      IF n < 0
                      THEN DmaInitReturns([@ EXCEPT !.num_chans = n], n,
                                          "of_num_channels")
                      ELSE [@ EXCEPT !.num_chans = n,
                                     !.step = "kmalloc_channels"]]
    /\ UNCHANGED probe_frame

\* dev->channels = kmalloc(...)
KmallocChannels ==
    /\ probe.dev.step = "kmalloc_channels"
    /\ \E kmalloc_ok \in BOOLEAN :
          probe' = [probe EXCEPT !.dev =
                      IF kmalloc_ok
                      THEN [@ EXCEPT !.heap = @ \cup {"channels"},
                                     !.step = "kmalloc_cb_data"]
                      ELSE DmaInitReturns(@, -ENOMEM, "kmalloc_channels")]
    /\ UNCHANGED probe_frame

\* dev->cb_data = kmalloc(...)
KmallocCbData ==
    /\ probe.dev.step = "kmalloc_cb_data"
    /\ \E kmalloc_ok \in BOOLEAN :
          probe' = [probe EXCEPT !.dev =
                      IF kmalloc_ok
                      THEN [@ EXCEPT !.heap = @ \cup {"cb_data"},
                                     !.step = "of_parse_dma_nodes"]
                      ELSE DmaInitReturns(free_channels(@), -ENOMEM,
                                          "kmalloc_cb_data")]
    /\ UNCHANGED probe_frame

\* rc = axidma_of_parse_dma_nodes(pdev, dev)
OfParseDmaNodes ==
    /\ probe.dev.step = "of_parse_dma_nodes"
    /\ \/ \E nodes \in [1 .. probe.dev.num_chans -> ChannelNodes] :
             probe' = [probe EXCEPT !.dev =
                         [@ EXCEPT !.nodes = nodes,
                                   !.step = "request_channels"]]
       \/ probe' = [probe EXCEPT !.dev =
                       DmaInitReturns(@, -EINVAL, "of_parse_dma_nodes")]
    /\ UNCHANGED probe_frame

\* What one pass of the loop of axidma_request_channels meets: the name is
\* not parsed, the dmaengine hands back NULL or an error, or the channel.
RequestAnswers == {"of_parse_dma_name", "NULL", "IS_ERR", "chan"}

\* One pass of the loop of axidma_request_channels, and on a failure the
\* rest of axidma_request_channels and of axidma_dma_init.
RequestChannel ==
    /\ probe.dev.step = "request_channels"
    /\ probe.dev.i < probe.dev.num_chans
    /\ \E answer \in RequestAnswers :
          probe' = [probe EXCEPT !.dev =
                      IF answer = "chan"
                      THEN [@ EXCEPT !.held = @ \cup {probe.dev.i},
                                     !.num_reserved_chans = @ + 1,
                                     !.i = @ + 1]
                      ELSE DmaInitReturns(
                               free_callback_data(release_channels(@, 0)),
                               CASE answer = "of_parse_dma_name" -> -EINVAL
                                 [] answer = "NULL" -> -ENODEV
                                 [] answer = "IS_ERR" -> -EBUSY,
                               "request_channels")]
    /\ UNCHANGED probe_frame

\* The loop is over: axidma_request_channels and axidma_dma_init return 0.
RequestChannelsDone ==
    /\ probe.dev.step = "request_channels"
    /\ probe.dev.i >= probe.dev.num_chans
    /\ probe' = [probe EXCEPT !.dev = DmaInitReturns(@, 0, "none")]
    /\ UNCHANGED probe_frame

\* axidma_dma_exit, after an initialisation that succeeded.
RECURSIVE ExitFrom(_, _)
ExitFrom(dev, i) ==
    IF i >= dev.num_chans THEN dev
    ELSE ExitFrom([dev EXCEPT !.held = @ \ {i}, !.released = Append(@, i)],
                  i + 1)

PlatformDmaExit ==
    /\ probe.dev.step = "returned"
    /\ probe.dev.rc = 0
    /\ probe' = [probe EXCEPT !.dev =
                    [ExitFrom(@, 0) EXCEPT !.heap = @ \ {"channels", "cb_data"},
                                           !.step = "exited"]]
    /\ UNCHANGED probe_frame

NextPlatform ==
    \/ OfNumChannels
    \/ KmallocChannels
    \/ KmallocCbData
    \/ OfParseDmaNodes
    \/ RequestChannel
    \/ RequestChannelsDone
    \/ PlatformDmaExit

SpecPlatform == InitPlatform /\ [][NextPlatform]_vars

\* The indices 0 .. n - 1, in order.
FirstIndices(n) == [j \in 1 .. n |-> j - 1]

\* C34: whenever axidma_dma_init returns a negative status, no channel
\* remains reserved and both arrays it allocated have been freed; when
\* reserving channel i failed, exactly channels 0 .. i-1 were released, each
\* once.
C34_FailedInitHoldsNothing ==
    (probe.dev.step = "returned" /\ probe.dev.rc < 0) =>
        /\ probe.dev.held = {}
        /\ probe.dev.heap = {}
        /\ probe.dev.released =
              IF probe.dev.failed = "request_channels"
              THEN FirstIndices(probe.dev.i)
              ELSE << >>

\* The allocation records on the list.
Listed == { dmabuf_list[i] : i \in 1 .. Len(dmabuf_list) }

\* C36: an mmap that fails returns a negative status and leaves the list,
\* the DMA memory held and the records held as they were; the list gains an
\* allocation only in an mmap that returns 0, and then exactly the memory and
\* the record of the allocations listed are held.
C36_FailedMmapUndone ==
    [][ (pc = "idle" /\ pc' = "returned" /\ last'.cmd = "mmap") =>
          /\ last'.rc < 0 =>
                /\ dmabuf_list' = dmabuf_list
                /\ coherent' = coherent
                /\ kmalloced' = kmalloced
          /\ dmabuf_list' # dmabuf_list => last'.rc = 0
          /\ kmalloced' = Listed'
          /\ coherent' = Backing' ]_vars

\* An mmap has failed in dma_mmap_coherent while another allocation is live.
C36_Witness ==
    /\ pc = "returned"
    /\ last.cmd = "mmap"
    /\ last.rc = -EINVAL
    /\ dmabuf_list # << >>
    /\ kmalloced = Listed

(***************************************************************************)
(* axidma_chrdev_init running while clients use the character device.      *)
(***************************************************************************)

\* The driver's state other than its three initialisations: nothing is
\* mapped, queued or open, and the client is in user space.
Quiescent ==
    /\ channels = ProbedChannels
    /\ files = {}
    /\ notify_signal = NoSignal
    /\ sent = << >>
    /\ dmabuf_list = << >>
    /\ coherent = {}
    /\ kmalloced = {}
    /\ pending = [c \in 0 .. (Len(ProbedChannels) - 1) |-> << >>]
    /\ active = [c \in 0 .. (Len(ProbedChannels) - 1) |-> << >>]
    /\ completed = [c \in 0 .. (Len(ProbedChannels) - 1) |-> 0]
    /\ next_cookie = [c \in 0 .. (Len(ProbedChannels) - 1) |-> 0]
    /\ passes = [c \in 0 .. (Len(ProbedChannels) - 1) |-> 0]
    /\ cb_data = [c \in 0 .. (Len(ProbedChannels) - 1) |->
                    [channel_id |-> c, comp |-> FALSE,
                     notify_signal |-> NoSignal, process |-> NULL]]
    /\ pc = "idle"
    /\ cur = NoCur
    /\ last = NoLast
    /\ calls = << >>
    /\ res = NoRes

\* axidma_chrdev_init is entered.
NoChrdev ==
    [step |-> "alloc_chrdev_region", rc |-> 0, added |-> FALSE,
     list_init |-> FALSE]

InitChrdev ==
    /\ Quiescent
    /\ probe = NoProbe
    /\ chrdev = NoChrdev
    /\ prog = NoProg

chrdev_frame == << channels, alloc_vars, engine_vars, caller_vars, res,
                  notify_signal, sent, files, probe, prog >>

\* A call of axidma_chrdev_init that sets nothing up for clients: on success
\* the function goes on to the step `next`, on failure it undoes the calls
\* before it and returns rc.
ChrdevCall(step, next, rc) ==
    /\ chrdev.step = step
    /\ \/ chrdev' = [chrdev EXCEPT !.step = next]
       \/ chrdev' = [chrdev EXCEPT !.step = "returned", !.rc = rc]
    /\ UNCHANGED chrdev_frame

AllocChrdevRegion == ChrdevCall("alloc_chrdev_region", "class_create", -EBUSY)
ClassCreate == ChrdevCall("class_create", "device_create", -ENOMEM)
DeviceCreate == ChrdevCall("device_create", "cdev_add", -ENOMEM)

\* cdev_init and cdev_add: from here on the kernel routes open, mmap and
\* ioctl on the device number to axidma_fops.
CdevAdd ==
    /\ chrdev.step = "cdev_add"
    /\ \/ chrdev' = [chrdev EXCEPT !.step = "INIT_LIST_HEAD", !.added = TRUE]
       \/ chrdev' = [chrdev EXCEPT !.step = "returned", !.rc = -ENOMEM]
    /\ UNCHANGED chrdev_frame

\* INIT_LIST_HEAD(&dev->dmabuf_list); return 0.  The head is made to point
\* at itself, whatever was linked to it.
InitListHead ==
    /\ chrdev.step = "INIT_LIST_HEAD"
    /\ chrdev' = [chrdev EXCEPT !.step = "returned", !.rc = 0,
                                !.list_init = TRUE]
    /\ dmabuf_list' = << >>
    /\ UNCHANGED << channels, prog, coherent, kmalloced, engine_vars,
                    caller_vars, res, notify_signal, sent, files, probe >>

\* The client's calls, once the kernel routes them to the driver.
ClientOpen == chrdev.added /\ Open
ClientRelease == Release
ClientMmap == files # {} /\ chrdev.list_init /\ Mmap
\* A transfer ioctl resolves the address of its buffer.
ClientResolve == files # {} /\ chrdev.list_init /\ Resolve

\* mmap on an open file before INIT_LIST_HEAD has run: the steps before
\* list_add are those of every mmap; list_add reads and writes through the
\* pointers the head happens to hold, so the call either faults in the
\* kernel or links the record.
MmapBeforeListHead ==
    /\ pc = "idle"
    /\ files # {}
    /\ ~chrdev.list_init
    /\ Len(dmabuf_list) < MaxAllocs
    /\ \E mm \in MainMms, vm_start \in MainVmStarts, size \in MainVmSizes,
          dma_addr \in MainBusBases, fault \in MmapFaults,
          oops \in BOOLEAN :
         LET r == axidma_mmap(mm, vm_start, size, dma_addr, fault)
         IN  /\ r.rc = 0 \/ ~oops
             /\ dmabuf_list' = IF oops THEN dmabuf_list ELSE r.list
             /\ coherent' = r.held
             /\ kmalloced' = r.records
             /\ pc' = IF oops THEN "oops" ELSE "returned"
             /\ last' = [cmd |-> "mmap",
                         req |-> [mm |-> mm, vm_start |-> vm_start,
                                  size |-> size],
                         rc |-> r.rc,
                         err |-> IF oops THEN "Oops"
                                 ELSE IF r.rc < 0 THEN "AllocationExhausted"
                                 ELSE "none",
                         chan |-> NoChan]
    /\ calls' = << >>
    /\ sent' = << >>
    /\ UNCHANGED << channels, chrdev, prog, files, probe, notify_signal,
                    engine_vars, cur, res >>

\* The address resolution of a transfer ioctl before INIT_LIST_HEAD has run:
\* list_for_each follows the pointers the head happens to hold, so the call
\* faults in the kernel or hands back whatever it finds.
ResolveBeforeListHead ==
    /\ pc = "idle"
    /\ files # {}
    /\ ~chrdev.list_init
    /\ \E user_addr \in MainVmStarts, size \in MainVmSizes,
          dma_addr \in {NULL} \cup MainBusBases, oops \in BOOLEAN :
         /\ res' = IF oops THEN res
                   ELSE [user_addr |-> user_addr, size |-> size,
                         dma_addr |-> dma_addr, asked |-> TRUE]
         /\ pc' = IF oops THEN "oops" ELSE "returned"
         /\ last' = [cmd |-> "resolve",
                     req |-> [user_addr |-> user_addr, size |-> size],
                     rc |-> 0, err |-> IF oops THEN "Oops" ELSE "none",
                     chan |-> NoChan]
    /\ calls' = << >>
    /\ sent' = << >>
    /\ UNCHANGED << channels, chrdev, prog, files, probe, notify_signal,
                    alloc_vars, engine_vars, cur >>

NextChrdev ==
    \/ AllocChrdevRegion
    \/ ClassCreate
    \/ DeviceCreate
    \/ CdevAdd
    \/ InitListHead
    \/ ClientOpen
    \/ ClientRelease
    \/ ClientMmap
    \/ ClientResolve
    \/ MmapBeforeListHead
    \/ ResolveBeforeListHead
    \/ ReturnToUser

SpecChrdev == InitChrdev /\ [][NextChrdev]_vars

\* The step is an mmap that reaches list_add, or an address resolution.
TouchesList ==
    /\ pc = "idle"
    /\ pc' # "idle"
    /\ \/ last'.cmd = "mmap" /\ last'.rc = 0
       \/ last'.cmd = "resolve"
       \/ res'.asked

\* C35: no mmap inserts into the allocation list and no address resolution
\* walks it before INIT_LIST_HEAD has run.
C35_ListInitialisedBeforeUse ==
    [][ TouchesList => chrdev.list_init ]_vars

(***************************************************************************)
(* The file-transfer program (axidma_transfer.c): do_transfer starts a     *)
(* non-blocking transaction on every channel other than the main input and *)
(* output channels, runs the main transaction, and stops the others.       *)
(* prog.started holds the (direction, channel) pairs with a transaction    *)
(* started and not stopped, prog.held the buffers axidma_malloc'ed and not *)
(* freed.                                                                  *)
(***************************************************************************)

\* The transmit and the receive channels the device can have.
MaxTxChans == 3
MaxRxChans == 2

\* The channel arrays the library hands out: ids in any order, each once.
ChanLists(n) ==
    { l \in SeqsUpTo(0 .. (n - 1), n) :
        /\ Len(l) >= 1
        /\ \A i, j \in 1 .. Len(l) : i # j => l[i] # l[j] }

\* What bufs points at when do_remainder_transactions has returned before
\* storing to it.
Uninit == [set |-> FALSE, at |-> << >>]
\* The entries of an array of buffers: a null pointer, and an entry read
\* from memory that is not an array of buffers.
NullBuf == [dir |-> "NULL", i |-> 0]
Garbage == [dir |-> "garbage", i |-> 0]

\* What a pass of the loop of do_remainder_transactions meets: axidma_malloc
\* fails, the transfer is rejected, or the transaction starts.
RemainderAnswers == {"ENOMEM", "rejected", "started"}

\* The loop of do_remainder_transactions from index i on.  r holds rc, the
\* array buffers, and the transactions and buffers held so far.
RECURSIVE RemainderLoop(_, _, _, _, _, _, _)
RemainderLoop(r, input_channel, output_channel, chans, dir, answers, i) ==
    IF i > Len(chans) THEN r
    ELSE IF chans[i] = input_channel \/ chans[i] = output_channel
    THEN RemainderLoop(r, input_channel, output_channel, chans, dir,
                       answers, i + 1)
    ELSE IF answers[i] = "ENOMEM"
    THEN [r EXCEPT !.rc = -ENOMEM]
    ELSE IF answers[i] = "rejected"
    THEN RemainderLoop([r EXCEPT !.rc = -1], input_channel, output_channel,
                       chans, dir, answers, i + 1)
    ELSE RemainderLoop(
             [r EXCEPT !.rc = 0,
                       !.bufs.at[i] = [dir |-> dir, i |-> i],
                       !.held = @ \cup {[dir |-> dir, i |-> i]},
                       !.started = @ \cup {[dir |-> dir, chan |-> chans[i]]}],
             input_channel, output_channel, chans, dir, answers, i + 1)

\* do_remainder_transactions: rc, *bufs, and the transactions and buffers
\* held when it returns.
do_remainder_transactions(p, chans, dir, malloc_ok, answers) ==
    IF ~malloc_ok
    THEN [rc |-> -ENOMEM, bufs |-> Uninit, held |-> p.held,
          started |-> p.started]
    ELSE RemainderLoop([rc |-> 0, bufs |-> [set |-> TRUE,
                                 at |-> [i \in 1 .. Len(chans) |-> NullBuf]],
                        held |-> p.held, started |-> p.started],
                       p.input_channel, p.output_channel, chans, dir,
                       answers, 1)

\* The loop of stop_remainder_transactions from index i on.
RECURSIVE StopLoop(_, _, _, _, _, _, _)
StopLoop(r, input_channel, output_channel, chans, dir, bufs, i) ==
    IF i > Len(chans) THEN r
    ELSE IF bufs[i] = NullBuf THEN r
    ELSE IF chans[i] = input_channel \/ chans[i] = output_channel
    THEN StopLoop(r, input_channel, output_channel, chans, dir, bufs, i + 1)
    ELSE StopLoop(
             [r EXCEPT !.started = @ \ {[dir |-> dir, chan |-> chans[i]]},
                       !.held = @ \ {bufs[i]}],
             input_channel, output_channel, chans, dir, bufs, i + 1)

\* stop_remainder_transactions on the array bufs.
stop_remainder_transactions(p, chans, dir, bufs) ==
    StopLoop([held |-> p.held, started |-> p.started], p.input_channel,
             p.output_channel, chans, dir, bufs, 1)

\* do_transfer is entered.
ProgStart(tx_chans, rx_chans, input_channel, output_channel) ==
    [step |-> "start_tx", tx_chans |-> tx_chans, rx_chans |-> rx_chans,
     input_channel |-> input_channel, output_channel |-> output_channel,
     rc |-> 0, tx_bufs |-> Uninit, rx_bufs |-> Uninit, held |-> {},
     started |-> {}]

\* The main channels are channels of the device: the first of each array
\* unless the user names others.
InitProgram ==
    /\ Quiescent
    /\ probe = NoProbe
    /\ chrdev = ChrdevInService
    /\ \E tx_chans \in ChanLists(MaxTxChans), rx_chans \in ChanLists(MaxRxChans) :
          \E i \in 1 .. Len(tx_chans), j \in 1 .. Len(rx_chans) :
             prog = ProgStart(tx_chans, rx_chans, tx_chans[i], rx_chans[j])

prog_frame == << channels, alloc_vars, engine_vars, caller_vars, res,
                notify_signal, sent, files, probe, chrdev >>

\* rc = do_remainder_transactions(..., tx_chans, ..., AXIDMA_WRITE, &tx_bufs)
StartRemainderTx ==
    /\ prog.step = "start_tx"
    /\ \E malloc_ok \in BOOLEAN,
          answers \in [1 .. Len(prog.tx_chans) -> RemainderAnswers] :
          LET r == do_remainder_transactions(prog, prog.tx_chans, AXIDMA_WRITE,
                                             malloc_ok, answers)
          IN  prog' = [prog EXCEPT
                          !.rc = r.rc, !.tx_bufs = r.bufs, !.held = r.held,
                          !.started = r.started,
                          !.step = IF r.rc < 0 THEN "stop_rem_tx"
                                   ELSE "start_rx"]
    /\ UNCHANGED prog_frame

\* rc = do_remainder_transactions(..., rx_chans, ..., AXIDMA_READ, &rx_bufs)
StartRemainderRx ==
    /\ prog.step = "start_rx"
    /\ \E malloc_ok \in BOOLEAN,
          answers \in [1 .. Len(prog.rx_chans) -> RemainderAnswers] :
          LET r == do_remainder_transactions(prog, prog.rx_chans, AXIDMA_READ,
                                             malloc_ok, answers)
          IN  prog' = [prog EXCEPT
                          !.rc = r.rc, !.rx_bufs = r.bufs, !.held = r.held,
                          !.started = r.started,
                          !.step = IF r.rc < 0 THEN "stop_rem_rx"
                                   ELSE "twoway_transfer"]
    /\ UNCHANGED prog_frame

\* rc = axidma_twoway_transfer(..., true)
MainTransfer ==
    /\ prog.step = "twoway_transfer"
    /\ \E rc \in {0, -1} :
          prog' = [prog EXCEPT !.rc = rc, !.step = "stop_rem_rx"]
    /\ UNCHANGED prog_frame

\* stop_remainder_transactions on an array do_remainder_transactions has
\* set; or on a pointer it has not: the entries read are whatever the
\* memory holds, and reading or freeing them may end the program.
StopRemainder(step, next, chans, dir, bufs) ==
    /\ prog.step = step
    /\ IF bufs.set
       THEN LET r == stop_remainder_transactions(prog, chans, dir, bufs.at)
            IN  prog' = [prog EXCEPT !.held = r.held, !.started = r.started,
                                     !.step = next]
       ELSE \/ prog' = [prog EXCEPT !.step = "SIGSEGV"]
            \/ \E read \in [1 .. Len(chans) -> {NullBuf, Garbage}] :
                  LET r == stop_remainder_transactions(prog, chans, dir, read)
                  IN  prog' = [prog EXCEPT !.held = r.held,
                                           !.started = r.started,
                                           !.step = next]
    /\ UNCHANGED prog_frame

\* stop_rem_rx:
StopRemainderRx ==
    StopRemainder("stop_rem_rx", "stop_rem_tx", prog.rx_chans, AXIDMA_READ, prog.rx_bufs)

\* stop_rem_tx: and return rc
StopRemainderTx ==
    StopRemainder("stop_rem_tx", "returned", prog.tx_chans, AXIDMA_WRITE, prog.tx_bufs)

NextProgram ==
    \/ StartRemainderTx
    \/ StartRemainderRx
    \/ MainTransfer
    \/ StopRemainderRx
    \/ StopRemainderTx

SpecProgram == InitProgram /\ [][NextProgram]_vars

\* C37: after do_transfer returns, every remainder channel on which a
\* non-blocking transaction was started has been stopped and its buffer
\* freed.
C37_RemaindersStoppedAndFreed ==
    prog.step = "returned" => (prog.started = {} /\ prog.held = {})

====
